---- MODULE Spec2Model ----
(***************************************************************************)
(* PC-Canary: the evaluation state machine (BaseEvaluator) and the three   *)
(* injection backends (HookManager, IpcInjector, StateInspector).          *)
(*                                                                         *)
(* Spec      the evaluator: start(), stop(), the message sink _on_message  *)
(*           called from a backend thread and, for the in-process          *)
(*           backends, from unload_scripts on the main thread.             *)
(* SpecStop  the same, with a record_event that may raise inside stop().   *)
(* SpecRestart  the evaluator with start() called again after stop().     *)
(* SpecConstruct  BaseEvaluator.__init__ registering the configured bundles. *)
(* SpecLoad  the backends' script registry and load_scripts.               *)
(* SpecReload  load_scripts on a registry whose files disappear.           *)
(* SpecBackends  the backends from load_scripts to unload_scripts, with    *)
(*           the bridge's server process: connect and disconnect.          *)
(* SpecRelay the bridge's evaluator -> target path: the command queue and  *)
(*           the server's periodic relay task.                             *)
(* SpecRace  both queues of the bridge under concurrent producers.         *)
(* SpecDrain the bridge's target -> evaluator path: send and the drain     *)
(*           thread _handle_messages.                                      *)
(* SpecTrigger  the same with trigger_evaluate_on_completion.              *)
(* SpecLifecycle  start_app and stop_app on the target's process.          *)
(***************************************************************************)
EXTENDS Integers, Sequences, FiniteSets, TLC

VARIABLES
    \* ---- BaseEvaluator ----
    evaluator_type,            \* which backend self.hook_manager is
    evaluate_on_completion,    \* evaluation_setup.evaluate_on_completion
    message_handler,           \* TRUE iff self.message_handler is set
    is_running,                \* self.is_running
    final_callback_triggered,  \* self._final_callback_triggered
    raw_events,                \* the result collector's event log
    key_steps,                 \* the key-step metric's recorded indices
    callbacks_fired,           \* calls made to the registered completion callback
    session_ended,             \* result_collector.end_session + save_results done
    sink_open,                 \* the backend holds the sink and can still call it
    main_pc,                   \* position of the main thread (run_evaluator.main)
    stop_context,              \* the (reason, status) the driver wanted for the stop
    pending,                   \* per thread: the handler updates not yet processed
    in_msg,                    \* per thread: the id of the message being processed
    handled,                   \* history: handler result of each message, by id
    \* ---- backends ----
    scripts,                   \* registered bundles <<primary, dependencies>>
    loaded_scripts,            \* bundles recorded as loaded
    target_session_id,         \* bridge: connected session ids
    msg_from_evaluator,        \* bridge: evaluator -> target command queue
    injected,                  \* script contents handed to the target, in order
    app_process,               \* the launched target: "none", "alive" or "gone"
    attach_attempts,           \* attach backend: frida.attach calls
    eval_handler,              \* TRUE iff the backend holds the evaluator's sink
    inspector_on_start,        \* library backend: recorded start hooks
    inspector_on_completion,   \* library backend: recorded completion hooks
    hooks_called,              \* library backend: hook calls made, in order
    load_result,               \* what the last load_scripts returned
    load_calls,                \* number of load_scripts calls made
    files,                     \* the script files on disk
    last_load,                 \* history: the last load_scripts call, before and after
    \* ---- bridge backend: server process, shared collections, drain thread ----
    clients,                   \* session ids of the target clients now connected
    msg_from_app,              \* target -> evaluator message queue
    sends,                     \* number of messages the target has sent
    app_connect,               \* self.app_connect
    triggered_evaluate,        \* self.triggered_evaluate, the acknowledgment flag
    message_handle_running,    \* self.message_handle_running
    drain_pc,                  \* position of the drain thread (_handle_messages)
    drain_pos,                 \* messages of the current pass already taken
    taken,                     \* history: messages given to the sink or dropped
    server,                    \* the server process: "alive" or "terminated"
    manager,                   \* the shared collections: "up", "cut" (up, but the
                               \* server process lost its connection), "dead", "shutdown"
    queue_task,                \* the server's periodic task: next |-> "scheduled",
                               \* "clearing" (loop done, queue not yet emptied) or
                               \* "stopped", emitted |-> commands its loop has read,
                               \* errors |-> (history) the exceptions it met,
                               \* lost |-> (history) commands emptied away unread,
                               \* emits |-> (history) its sio.emit calls
    evaluated,                 \* session ids an evaluate signal was emitted to
    connects,                  \* history: the connect handler's calls
    \* ---- unload_scripts ----
    frida_session,             \* attach backend: TRUE iff self.frida_session is set
    unload_pc,                 \* bridge: "idle", or "waiting" in the trigger's poll loop
    unload_log,                \* history: the unload_scripts calls
    \* ---- configuration, start_app and stop_app ----
    config_scripts,            \* config["evaluation_setup"]["scripts"]: the hook
                               \* entries __init__ has not processed yet
    app_path,                  \* self.app_path: what the configured executable is
    app_started,               \* self.app_started
    app_calls                  \* start |-> what start_app returned, pc |-> position
                               \* of stop_app, log |-> (history) the steps of the
                               \* current stop_app call, stops |-> calls made,
                               \* waited |-> polls the bridge's readiness wait has
                               \* slept, ended |-> (history) what ended the wait,
                               \* evaluator |-> (history) the calls of start() and
                               \* stop() with what they returned

evalVars == <<evaluator_type, evaluate_on_completion, message_handler, is_running,
              final_callback_triggered, raw_events, key_steps, callbacks_fired,
              session_ended, sink_open, main_pc, stop_context, pending, in_msg,
              handled>>

loadVars == <<scripts, loaded_scripts, target_session_id, msg_from_evaluator,
              injected, app_process, attach_attempts, eval_handler, inspector_on_start,
              inspector_on_completion, hooks_called, load_result, load_calls,
              files, last_load>>

bridgeVars == <<clients, msg_from_app, sends, app_connect, triggered_evaluate,
                message_handle_running, drain_pc, drain_pos, taken, server, manager,
                queue_task, evaluated, connects>>

unloadVars == <<frida_session, unload_pc, unload_log>>

backendVars == <<loadVars, bridgeVars, unloadVars>>

appVars == <<config_scripts, app_path, app_started, app_calls>>

vars == <<evalVars, backendVars, appVars>>

-----------------------------------------------------------------------------
(* Bounds *)

MaxMessages == 2
MaxScripts == 2
MaxLoads == 2
MaxRemoved == 1
MaxSends == 2
MaxUnloads == 2
MaxStarts == 2
MaxStopApps == 2
MaxPending == 3
MaxWaitPolls == 2
MaxTaken == 3
MaxCalls == 3

Absent == "<absent>"

(* Messages are numbered in the order the sink is called; MsgId(m) tags    *)
(* what message m did, NoMsg what start() and stop() did.                  *)
NoMsg == "none"
MsgId(m) == "msg" \o ToString(m)

Threads == {"main", "sink"}
Backends == {"HookManager", "IpcInjector", "StateInspector"}

-----------------------------------------------------------------------------
(* Handler updates: the dicts a task handler returns.  A field the dict    *)
(* does not carry is Absent; an item that is no dict has is_dict = FALSE.  *)

Upd(status, reason, type, message, index, name) ==
    [is_dict |-> TRUE, status |-> status, reason |-> reason, type |-> type,
     message |-> message, index_is_int |-> TRUE, index |-> index, name |-> name]

SuccessUpd(reason) == Upd("success", reason, Absent, Absent, 0, Absent)
ErrorUpd(type, message) == Upd("error", Absent, type, message, 0, Absent)
KeyStepUpd(index) == Upd("key_step", Absent, Absent, Absent, index, Absent)

Get(field, default) == IF field = Absent THEN default ELSE field

(* What one handler invocation can produce: a list of updates, None, or   *)
(* an exception with a text.                                               *)
ListResult(updates) == [kind |-> "list", updates |-> updates, text |-> Absent]
NoneResult == [kind |-> "none", updates |-> << >>, text |-> Absent]
RaiseResult(text) == [kind |-> "raise", updates |-> << >>, text |-> text]

Done == SuccessUpd("done")
Boom == ErrorUpd(Absent, "boom")

(* The handler outcomes the evaluator is driven with.                      *)
HandlerResults ==
    { NoneResult,
      RaiseResult("boom"),
      ListResult(<< KeyStepUpd(1) >>),
      ListResult(<< KeyStepUpd(1), KeyStepUpd(1) >>),
      ListResult(<< KeyStepUpd(2), KeyStepUpd(1) >>),
      ListResult(<< KeyStepUpd(1), Done >>),
      ListResult(<< Done >>),
      ListResult(<< Done, Done >>),
      ListResult(<< Boom >>),
      ListResult(<< Done, Boom >>) }

(* The other things a handler can put in its list, or return.              *)
NamedKeyStepUpd(index, name) == Upd("key_step", Absent, Absent, Absent, index, name)
NoIntKeyStepUpd == [KeyStepUpd(0) EXCEPT !.index_is_int = FALSE]
AppEventUpd(name) == Upd("app_event", Absent, Absent, Absent, 0, name)
ContinueUpd == Upd("continue", Absent, Absent, Absent, 0, Absent)
NoStatusUpd == Upd(Absent, Absent, Absent, Absent, 0, Absent)
UnknownUpd == Upd("paused", Absent, Absent, Absent, 0, Absent)
NoDict == [NoStatusUpd EXCEPT !.is_dict = FALSE]
OtherResult == [kind |-> "other", updates |-> << >>, text |-> Absent]

(* The number of key steps the task's configuration declares.              *)
total_key_steps == 2

UpdateResults ==
    { NoneResult,
      OtherResult,
      ListResult(<< KeyStepUpd(0), KeyStepUpd(1) >>),
      ListResult(<< NoIntKeyStepUpd, KeyStepUpd(2) >>),
      ListResult(<< KeyStepUpd(-1), AppEventUpd("saved") >>),
      ListResult(<< KeyStepUpd(total_key_steps + 1) >>),
      ListResult(<< NamedKeyStepUpd(total_key_steps + 1, "extra"), KeyStepUpd(1) >>),
      ListResult(<< NamedKeyStepUpd(1, "opened") >>),
      ListResult(<< AppEventUpd("saved") >>),
      ListResult(<< AppEventUpd(Absent), ContinueUpd >>),
      ListResult(<< NoStatusUpd, UnknownUpd >>),
      ListResult(<< NoDict, AppEventUpd("saved") >>),
      ListResult(<< NoDict >>),
      ListResult(<< ContinueUpd, Done >>),
      ListResult(<< UnknownUpd, Boom >>) }

-----------------------------------------------------------------------------
(* Events of the log.  "by" is a provenance tag, not program data: the id  *)
(* of the message whose processing recorded the event, NoMsg for start()   *)
(* and stop().  The timestamps are left out.                               *)

Event(event_type, by) ==
    [event_type |-> event_type, status |-> Absent, reason |-> Absent,
     error |-> Absent, message |-> Absent, step_index |-> 0, step_name |-> Absent,
     by |-> by]

TaskStart(by) == Event("TASK_START", by)
TaskEnd(status, reason, by) ==
    [Event("TASK_END", by) EXCEPT !.status = status, !.reason = reason]
AgentError(error, message, by) ==
    [Event("AGENT_ERROR_OCCURRED", by) EXCEPT !.error = error, !.message = message]
KeyStepCompleted(index, name, by) ==
    [Event("KEY_STEP_COMPLETED", by) EXCEPT !.step_index = index, !.step_name = name]
AppSpecificEvent(name, by) ==
    [Event("APP_SPECIFIC_EVENT", by) EXCEPT !.step_name = name]

CallbackEventData(event_type, message, by) ==
    [event_type |-> event_type, message |-> message, by |-> by]

(* The result collector appends the event to the task's raw event list.    *)
ResultCollectorRecord(log, ev) == Append(log, ev)

(* The key-step metric keeps each reported index once, in report order.    *)
KeyStepMetricRecord(steps, ev) ==
    IF ev.event_type = "KEY_STEP_COMPLETED"
           /\ ~(\E i \in 1..Len(steps) : steps[i] = ev.step_index)
    THEN Append(steps, ev.step_index)
    ELSE steps

(* The part of the evaluator that a message or stop() writes.              *)
Store == [raw_events |-> raw_events, key_steps |-> key_steps,
          callbacks_fired |-> callbacks_fired, final |-> final_callback_triggered]

record_event(st, ev) ==
    [st EXCEPT !.raw_events = ResultCollectorRecord(@, ev),
               !.key_steps = KeyStepMetricRecord(@, ev)]

trigger_completion_callbacks(st, event_data) ==
    [st EXCEPT !.final = IF event_data.event_type \in {"task_completed", "task_error"}
                         THEN TRUE ELSE @,
               !.callbacks_fired = Append(@, event_data)]

(* The statements of _on_message that write the evaluator, one "op" per   *)
(* statement: another thread can run between two of them.                  *)
RecordOp(ev) == [op |-> "record_event", ev |-> ev,
                 data |-> CallbackEventData(Absent, Absent, NoMsg)]
TriggerOp(data) == [op |-> "trigger_callbacks", ev |-> Event(Absent, NoMsg), data |-> data]
SetFinalOp == [op |-> "set_final", ev |-> Event(Absent, NoMsg),
               data |-> CallbackEventData(Absent, Absent, NoMsg)]

ApplyOp(st, o) ==
    CASE o.op = "record_event" -> record_event(st, o.ev)
      [] o.op = "trigger_callbacks" -> trigger_completion_callbacks(st, o.data)
      [] o.op = "set_final" -> [st EXCEPT !.final = TRUE]

(* A variant of the except branch that logs the formatted reason in place  *)
(* of the exception text.                                                  *)
HandlerExceptionReasonAsMessage(text, by) ==
    LET error_reason == "Handler execution error: " \o text
    IN << RecordOp(AgentError("Handler Exception", error_reason, by)),
          RecordOp(TaskEnd("failure", error_reason, by)),
          TriggerOp(CallbackEventData("task_error", error_reason, by)),
          SetFinalOp >>

(* _on_message, the except branch: the handler raised an exception whose   *)
(* text is `text`.                                                         *)
HandlerException(text, by) ==
    LET error_reason == "Handler execution error: " \o text
    IN << RecordOp(AgentError("Handler Exception", text, by)),
          RecordOp(TaskEnd("failure", error_reason, by)),
          TriggerOp(CallbackEventData("task_error", error_reason, by)),
          SetFinalOp >>

(* A variant of the success branch that records the event and forgets the *)
(* callbacks.                                                              *)
SuccessUpdateNoCallback(update, by) ==
    LET reason == Get(update.reason, "Handler reported success")
    IN << RecordOp(TaskEnd("success", reason, by)) >>

SuccessUpdate(update, by) ==
    LET reason == Get(update.reason, "Handler reported success")
    IN << RecordOp(TaskEnd("success", reason, by)),
          TriggerOp(CallbackEventData("task_completed", reason, by)) >>

ErrorUpdate(update, by) ==
    LET error_type == Get(update.type, "handler_error")
        error_message == Get(update.message, "Handler reported error")
        error_reason == error_type \o ": " \o error_message
    IN << RecordOp(AgentError(error_type, error_message, by)),
          RecordOp(TaskEnd("failure", error_reason, by)),
          TriggerOp(CallbackEventData("task_error", error_reason, by)) >>

(* A variant of the key_step branch whose index test is off by one.        *)
KeyStepUpdateOffByOne(update, by) ==
    IF ~update.index_is_int \/ update.index <= 1
    THEN << >>
    ELSE << RecordOp(KeyStepCompleted(update.index, update.name, by)) >>

(* A variant of the key_step branch that passes over an index beyond the   *)
(* declared number of key steps.                                           *)
KeyStepUpdateCapped(update, by) ==
    IF ~update.index_is_int \/ update.index <= 0 \/ update.index > total_key_steps
    THEN << >>
    ELSE << RecordOp(KeyStepCompleted(update.index, update.name, by)) >>

KeyStepUpdate(update, by) ==
    IF ~update.index_is_int \/ update.index <= 0
    THEN << >>
    ELSE << RecordOp(KeyStepCompleted(update.index, update.name, by)) >>

(* A variant of the app_event branch that also fires the callbacks.        *)
AppEventUpdateCompletes(update, by) ==
    << RecordOp(AppSpecificEvent(Get(update.name, "unknown_app_event"), by)),
       TriggerOp(CallbackEventData("task_completed", Absent, by)) >>

AppEventUpdate(update, by) ==
    << RecordOp(AppSpecificEvent(Get(update.name, "unknown_app_event"), by)) >>

(* _on_message, one turn of the loop over handler_updates: the statements  *)
(* the update makes the evaluator run.                                     *)
ProcessUpdate(update, by) ==
    IF ~update.is_dict THEN << >>
    ELSE CASE update.status = "success" -> SuccessUpdate(update, by)
           [] update.status = "error" -> ErrorUpdate(update, by)
           [] update.status = "key_step" -> KeyStepUpdate(update, by)
           [] update.status = "app_event" -> AppEventUpdate(update, by)
           [] OTHER -> << >>

RECURSIVE ProcessUpdates(_, _)
ProcessUpdates(updates, by) ==
    IF updates = << >> THEN << >>
    ELSE ProcessUpdate(Head(updates), by) \o ProcessUpdates(Tail(updates), by)

(* _on_message up to the loop: what the call leaves to be run.             *)
OnMessageOps(result, by) ==
    IF ~message_handler THEN << >>
    ELSE CASE result.kind = "raise" -> HandlerException(result.text, by)
           [] result.kind = "list" -> ProcessUpdates(result.updates, by)
           [] OTHER -> << >>

SetStore(st) ==
    /\ raw_events' = st.raw_events
    /\ key_steps' = st.key_steps
    /\ callbacks_fired' = st.callbacks_fired
    /\ final_callback_triggered' = st.final

storeVars == <<raw_events, key_steps, callbacks_fired, final_callback_triggered>>

(* CompletionState Finalized: a final callback was triggered, or stop()    *)
(* has completed.                                                          *)
Finalized == final_callback_triggered \/ main_pc = "done"

(* A thread enters _on_message: the handler runs and returns `result`.     *)
(* The call is entered in the history with the completion state it found.  *)
OnMessageCall(t, result) ==
    LET id == MsgId(Len(handled) + 1)
    IN /\ handled' = Append(handled, [thread |-> t, result |-> result,
                                     finalized |-> Finalized])
       /\ pending' = [pending EXCEPT ![t] = OnMessageOps(result, id)]
       /\ in_msg' = [in_msg EXCEPT ![t] = IF OnMessageOps(result, id) = << >>
                                          THEN NoMsg ELSE id]
       /\ UNCHANGED storeVars

(* The thread runs the next statement of the _on_message it is in.         *)
OnMessageStep(t) ==
    /\ pending[t] # << >>
    /\ SetStore(ApplyOp(Store, Head(pending[t])))
    /\ pending' = [pending EXCEPT ![t] = Tail(@)]
    /\ in_msg' = [in_msg EXCEPT ![t] = IF Tail(pending[t]) = << >> THEN NoMsg ELSE @]
    /\ UNCHANGED handled

-----------------------------------------------------------------------------
(* The backend's message thread (frida's message thread, the bridge's      *)
(* drain thread) passing messages to the sink.                             *)

SinkDeliver ==
    /\ sink_open
    /\ evaluator_type \in {"HookManager", "IpcInjector"}
    /\ pending["sink"] = << >>
    /\ Len(handled) < MaxMessages
    /\ \E result \in HandlerResults : OnMessageCall("sink", result)
    /\ UNCHANGED <<evaluator_type, evaluate_on_completion, message_handler, is_running,
                   session_ended, sink_open, main_pc, stop_context, backendVars>>
    /\ UNCHANGED appVars

(* The message thread passing a message whose handling returns one of the *)
(* less common results.                                                    *)
SinkDeliverUpdates ==
    /\ sink_open
    /\ evaluator_type \in {"HookManager", "IpcInjector"}
    /\ pending["sink"] = << >>
    /\ Len(handled) < MaxMessages
    /\ \E result \in UpdateResults : OnMessageCall("sink", result)
    /\ UNCHANGED <<evaluator_type, evaluate_on_completion, message_handler, is_running,
                   session_ended, sink_open, main_pc, stop_context, backendVars>>
    /\ UNCHANGED appVars

SinkStep ==
    /\ OnMessageStep("sink")
    /\ UNCHANGED <<evaluator_type, evaluate_on_completion, message_handler, is_running,
                   session_ended, sink_open, main_pc, stop_context, backendVars>>
    /\ UNCHANGED appVars

-----------------------------------------------------------------------------
(* The main thread: start(), then one stop().                              *)

NoContext == [reason |-> Absent, status |-> Absent]

(* The pairs the drivers pass to set_stop_context before stop().           *)
StopRequests ==
    {[reason |-> "Evaluation timed out after 300 seconds", status |-> "timeout"],
     [reason |-> "Execution interrupted by user (SIGINT)", status |-> "stopped"]}

stop_message == "Evaluator stopped externally or timed out before handler completion"

Start ==
    /\ main_pc = "init"
    /\ ~is_running
    /\ is_running' = TRUE
    /\ SetStore(record_event(Store, TaskStart(NoMsg)))
    /\ \E load_success \in BOOLEAN :
          sink_open' = CASE evaluator_type = "IpcInjector" -> TRUE
                         [] evaluator_type = "HookManager" -> load_success
                         [] OTHER -> FALSE
    /\ main_pc' = "loop"
    /\ UNCHANGED <<evaluator_type, evaluate_on_completion, message_handler,
                   session_ended, stop_context, pending, in_msg, handled, backendVars>>
    /\ UNCHANGED appVars

(* start() called on an evaluator that stop() has stopped: the only test   *)
(* is `if self.is_running`, so the body runs as in the first start().  The *)
(* bridge's drain thread and server are gone by then; a frida attach may   *)
(* succeed again.                                                          *)
TaskStarts == SelectSeq(raw_events, LAMBDA ev : ev.event_type = "TASK_START")

StartAgain ==
    /\ main_pc = "done"
    /\ ~is_running
    /\ Len(TaskStarts) < MaxStarts
    /\ is_running' = TRUE
    /\ SetStore(record_event(Store, TaskStart(NoMsg)))
    /\ \E load_success \in BOOLEAN :
          sink_open' = (evaluator_type = "HookManager" /\ load_success)
    /\ main_pc' = "loop"
    /\ UNCHANGED <<evaluator_type, evaluate_on_completion, message_handler,
                   session_ended, stop_context, pending, in_msg, handled, backendVars>>
    /\ UNCHANGED appVars

(* run_evaluator: the timeout branch and the SIGINT handler call           *)
(* evaluator.set_stop_context(reason, status).  BaseEvaluator defines no   *)
(* such method, so the call raises AttributeError before it stores         *)
(* anything; main's except branch then calls evaluator.stop().             *)
(* stop_context keeps the pair the driver asked for.                       *)
ExternalStop ==
    /\ main_pc = "loop"
    /\ is_running
    /\ \E ctx \in StopRequests : stop_context' = ctx
    /\ is_running' = FALSE
    /\ main_pc' = "unload"
    /\ UNCHANGED <<evaluator_type, evaluate_on_completion, message_handler, storeVars,
                   session_ended, sink_open, pending, in_msg, handled, backendVars>>
    /\ UNCHANGED appVars

(* stop() called with no stop context: run_evaluator after the completion  *)
(* callback ended the loop, run_agent_with_eval's finally block.           *)
PlainStop ==
    /\ main_pc = "loop"
    /\ is_running
    /\ is_running' = FALSE
    /\ main_pc' = "unload"
    /\ UNCHANGED <<evaluator_type, evaluate_on_completion, message_handler, storeVars,
                   session_ended, sink_open, stop_context, pending, in_msg, handled,
                   backendVars>>
    /\ UNCHANGED appVars

(* unload_scripts of an in-process backend with evaluate_on_completion:    *)
(* trigger_evaluate_on_completion calls the sink on the main thread.       *)
UnloadTrigger ==
    /\ main_pc = "unload"
    /\ evaluate_on_completion
    /\ evaluator_type \in {"HookManager", "StateInspector"}
    /\ Len(handled) < MaxMessages
    /\ \E result \in HandlerResults : OnMessageCall("main", result)
    /\ main_pc' = "unload_msg"
    /\ UNCHANGED <<evaluator_type, evaluate_on_completion, message_handler, is_running,
                   session_ended, sink_open, stop_context, backendVars>>
    /\ UNCHANGED appVars

UnloadTriggerStep ==
    /\ main_pc = "unload_msg"
    /\ OnMessageStep("main")
    /\ UNCHANGED <<evaluator_type, evaluate_on_completion, message_handler, is_running,
                   session_ended, sink_open, main_pc, stop_context, backendVars>>
    /\ UNCHANGED appVars

(* unload_scripts, the teardown: the backend stops calling the sink.  With *)
(* evaluate_on_completion an in-process backend that recorded no handler   *)
(* or hook, and the bridge backend, come here without calling the sink.    *)
UnloadTeardown ==
    /\ main_pc \in {"unload", "unload_msg"}
    /\ pending["main"] = << >>
    /\ sink_open' = FALSE
    /\ main_pc' = "check"
    /\ UNCHANGED <<evaluator_type, evaluate_on_completion, message_handler, is_running,
                   storeVars, session_ended, stop_context, pending, in_msg, handled,
                   backendVars>>
    /\ UNCHANGED appVars

StopCheck ==
    /\ main_pc = "check"
    /\ main_pc' = IF final_callback_triggered THEN "end" ELSE "record"
    /\ UNCHANGED <<evaluator_type, evaluate_on_completion, message_handler, is_running,
                   storeVars, session_ended, sink_open, stop_context, pending, in_msg,
                   handled, backendVars>>
    /\ UNCHANGED appVars

StopRecord ==
    /\ main_pc = "record"
    /\ SetStore(record_event(Store, TaskEnd("stopped", stop_message, NoMsg)))
    /\ main_pc' = "end"
    /\ UNCHANGED <<evaluator_type, evaluate_on_completion, message_handler, is_running,
                   session_ended, sink_open, stop_context, pending, in_msg, handled,
                   backendVars>>
    /\ UNCHANGED appVars

StopEnd ==
    /\ main_pc = "end"
    /\ session_ended' = TRUE
    /\ main_pc' = "done"
    /\ UNCHANGED <<evaluator_type, evaluate_on_completion, message_handler, is_running,
                   storeVars, sink_open, stop_context, pending, in_msg, handled, backendVars>>
    /\ UNCHANGED appVars

(* stop(), the except branch: record_event raised inside the try block     *)
(* (the result collector refused the event).  The exception is logged and  *)
(* stop() returns; the statements after the raising one are skipped.       *)
StopRaises ==
    /\ main_pc = "record"
    /\ main_pc' = "done"
    /\ UNCHANGED <<evaluator_type, evaluate_on_completion, message_handler, is_running,
                   storeVars, session_ended, sink_open, stop_context, pending, in_msg,
                   handled, backendVars>>
    /\ UNCHANGED appVars

-----------------------------------------------------------------------------
(* Script files.  A bundle is <<primary path, dependency paths>>.          *)

Content(path) ==
    CASE path = "a.js" -> "a"
      [] path = "b.js" -> "b"
      [] path = "c.js" -> "c"
      [] path = "d.js" -> "d"
      [] OTHER -> ""

(* os.path.exists / open(): the files that are there.                      *)
AllFiles == {"a.js", "b.js", "c.js", "d.js"}

Exists(path) == path \in files

Bundles == { << "c.js", << "a.js", "b.js" >> >>,
             << "d.js", << >> >>,
             << "c.js", << "gone.js" >> >>,
             << "missing.js", << >> >> }

Primary(bundle) == bundle[1]
Dependencies(bundle) == bundle[2]

RECURSIVE JoinLines(_)
JoinLines(parts) ==
    IF parts = << >> THEN ""
    ELSE IF Len(parts) = 1 THEN parts[1]
         ELSE parts[1] \o "\n" \o JoinLines(Tail(parts))

(* The files load_scripts reads for a bundle, in reading order: the        *)
(* primary script first, then each dependency.                             *)
ReadOrder(bundle) == << Primary(bundle) >> \o Dependencies(bundle)

Readable(bundle) == \A i \in 1..Len(ReadOrder(bundle)) : Exists(ReadOrder(bundle)[i])

(* script_content = "\n".join(scripts)                                     *)
ScriptContent(bundle) ==
    JoinLines([i \in 1..Len(ReadOrder(bundle)) |-> Content(ReadOrder(bundle)[i])])

InjectCommand(sid, content) == [type |-> "inject", sid |-> sid, content |-> content]
Injection(sid, content, via) == [sid |-> sid, content |-> content, via |-> via]

SessionIds == {"sid1", "sid2"}

LoadReturn(ok) == IF ok THEN "True" ELSE "False"

(* History of a load_scripts call: what it found (registry, sessions,      *)
(* files, whether it got past its early returns and the attach) and what   *)
(* it did (bundles it recorded as loaded, commands it enqueued, result).   *)
NoLoad ==
    [called |-> FALSE, backend |-> Absent, registry |-> << >>, sessions |-> << >>,
     files |-> {}, attempted |-> FALSE, loaded |-> << >>, enqueued |-> << >>,
     result |-> Absent]

LoadRecord(backend, attempted) ==
    [called |-> TRUE, backend |-> backend, registry |-> scripts,
     sessions |-> target_session_id, files |-> files, attempted |-> attempted,
     loaded |-> SubSeq(loaded_scripts', Len(loaded_scripts) + 1, Len(loaded_scripts')),
     enqueued |-> SubSeq(msg_from_evaluator', Len(msg_from_evaluator) + 1,
                         Len(msg_from_evaluator')),
     result |-> load_result']

(* A script file disappears from the disk.                                 *)
RemoveFile ==
    /\ Cardinality(AllFiles \ files) < MaxRemoved
    /\ \E path \in files : files' = files \ {path}
    /\ UNCHANGED <<evalVars, bridgeVars, unloadVars, scripts, loaded_scripts,
                   target_session_id, msg_from_evaluator, injected, app_process,
                   attach_attempts, eval_handler, inspector_on_start,
                   inspector_on_completion, hooks_called, load_result, load_calls,
                   last_load>>
    /\ UNCHANGED appVars

(* add_script: the bundle is registered iff its primary path exists;       *)
(* otherwise an error is logged.  The dependency paths are not looked at.  *)
add_script(registry, bundle) ==
    IF Exists(Primary(bundle)) THEN Append(registry, bundle) ELSE registry

AddScript ==
    /\ Len(scripts) < MaxScripts
    /\ \E bundle \in Bundles : scripts' = add_script(scripts, bundle)
    /\ UNCHANGED <<evalVars, bridgeVars, unloadVars, loaded_scripts, target_session_id,
                   msg_from_evaluator, injected, app_process, attach_attempts,
                   eval_handler, inspector_on_start, inspector_on_completion,
                   hooks_called, load_result, load_calls, files, last_load>>
    /\ UNCHANGED appVars

(* A variant of the checks that looks at the primary path only.            *)
ConfigErrorPrimaryOnly(bundle) ==
    IF ~Exists(Primary(bundle)) THEN "Script file does not exist" ELSE Absent

(* BaseEvaluator.__init__, the checks made on a hook entry before it is    *)
(* registered: the RuntimeError raised, or Absent.                         *)
ConfigError(bundle) ==
    IF ~Exists(Primary(bundle)) THEN "Script file does not exist"
    ELSE IF \E i \in 1..Len(Dependencies(bundle)) : ~Exists(Dependencies(bundle)[i])
         THEN "Hook dependency file does not exist"
         ELSE Absent

(* BaseEvaluator.__init__, one iteration of the loop over the configured   *)
(* scripts: a missing primary or dependency path raises out of the         *)
(* constructor, otherwise the bundle goes to the backend's add_script.     *)
RegisterScript ==
    /\ main_pc = "construct"
    /\ config_scripts # << >>
    /\ IF ConfigError(Head(config_scripts)) # Absent
       THEN /\ main_pc' = "raised"
            /\ UNCHANGED <<scripts, config_scripts>>
       ELSE /\ scripts' = add_script(scripts, Head(config_scripts))
            /\ config_scripts' = Tail(config_scripts)
            /\ UNCHANGED main_pc
    /\ UNCHANGED <<evaluator_type, evaluate_on_completion, message_handler, is_running,
                   storeVars, session_ended, sink_open, stop_context, pending, in_msg,
                   handled, bridgeVars, unloadVars, loaded_scripts, target_session_id,
                   msg_from_evaluator, injected, app_process, attach_attempts,
                   eval_handler, inspector_on_start, inspector_on_completion,
                   hooks_called, load_result, load_calls, files, last_load,
                   app_path, app_started, app_calls>>

(* The loop is through: the constructor returns the evaluator.             *)
ConstructReturn ==
    /\ main_pc = "construct"
    /\ config_scripts = << >>
    /\ main_pc' = "init"
    /\ UNCHANGED <<evaluator_type, evaluate_on_completion, message_handler, is_running,
                   storeVars, session_ended, sink_open, stop_context, pending, in_msg,
                   handled, backendVars, appVars>>

(* A variant of the replay that gives up at the first bundle it cannot     *)
(* read.                                                                   *)
RECURSIVE ReplayUntilFailure(_, _)
ReplayUntilFailure(sid, bundles) ==
    IF bundles = << >> \/ ~Readable(Head(bundles)) THEN << >>
    ELSE << Injection(sid, ScriptContent(Head(bundles)), "connect") >>
             \o ReplayUntilFailure(sid, Tail(bundles))

(* Bridge server, connect(sid): register the session, then replay every    *)
(* registered bundle that can be read to it.                               *)
RECURSIVE ReplayTo(_, _)
ReplayTo(sid, bundles) ==
    IF bundles = << >> THEN << >>
    ELSE (IF Readable(Head(bundles))
          THEN << Injection(sid, ScriptContent(Head(bundles)), "connect") >>
          ELSE << >>) \o ReplayTo(sid, Tail(bundles))

(* An access to the shared collections succeeds iff their manager process  *)
(* is there and the accessing process still has its connection to it;      *)
(* otherwise the accessing process gets one of these errors.  Reachable is *)
(* the main process's view, ServerReachable the server process's.          *)
Reachable == manager \in {"up", "cut"}

ServerReachable == manager = "up"

TransportErrors == {"BrokenPipeError", "ConnectionRefusedError"}

(* connect(sid) ends with `return True`, whatever its try blocks caught.   *)
ConnectAccepts(registered, replayed) == TRUE

(* The session ids no client has had yet.  The server library draws a     *)
(* fresh id for every connection; which one it is makes no difference.     *)
FreshSids ==
    { sid \in SessionIds :
        /\ \A i \in 1..Len(target_session_id) : target_session_id[i] # sid
        /\ \A i \in 1..Len(connects) : connects[i].sid # sid }

(* A new client connects with a session id not used before.  Both try      *)
(* blocks fail when the shared collections cannot be reached.              *)
Connect ==
    /\ evaluator_type = "IpcInjector"
    /\ server = "alive"
    /\ FreshSids # {}
    /\ LET sid == CHOOSE fresh \in FreshSids : TRUE
       IN
          /\ clients' = clients \cup {sid}
          /\ IF ServerReachable
             THEN /\ target_session_id' = Append(target_session_id, sid)
                  /\ injected' = injected \o ReplayTo(sid, scripts)
             ELSE UNCHANGED <<target_session_id, injected>>
          /\ connects' = Append(connects,
                [sid |-> sid, accepted |-> ConnectAccepts(ServerReachable, ServerReachable),
                 bookkeeping |-> ServerReachable, registry |-> scripts, files |-> files])
    /\ UNCHANGED <<evalVars, unloadVars, scripts, loaded_scripts, msg_from_evaluator,
                   app_process, attach_attempts, eval_handler, inspector_on_start,
                   inspector_on_completion, hooks_called, load_result, load_calls,
                   files, last_load, msg_from_app, sends, app_connect,
                   triggered_evaluate, message_handle_running, drain_pc, drain_pos,
                   taken, server, manager, queue_task, evaluated>>
    /\ UNCHANGED appVars

(* Bridge server, process_message_queue: emit every pending command to its *)
(* session, then empty the queue.                                          *)
(* The loop's tests: an inject command needs a sid and a content, an       *)
(* evaluate command a sid; anything else gets the warning of the else      *)
(* branch.  A key that is missing is Absent here.                          *)
IsInject(cmd) == cmd.type = "inject" /\ cmd.sid # Absent /\ cmd.content # Absent

IsEvaluate(cmd) == ~IsInject(cmd) /\ cmd.type = "evaluate" /\ cmd.sid # Absent

RECURSIVE Emitted(_)
Emitted(queue) ==
    IF queue = << >> THEN << >>
    ELSE (IF IsInject(Head(queue))
          THEN << Injection(Head(queue).sid, Head(queue).content, "load") >>
          ELSE << >>) \o Emitted(Tail(queue))

RECURSIVE EmittedEvaluates(_)
EmittedEvaluates(queue) ==
    IF queue = << >> THEN << >>
    ELSE (IF IsEvaluate(Head(queue)) THEN << Head(queue).sid >> ELSE << >>)
             \o EmittedEvaluates(Tail(queue))

(* A variant of the loop that ends at the first command it cannot send.    *)
RECURSIVE EmitsUntilInvalid(_)
EmitsUntilInvalid(queue) ==
    IF queue = << >> THEN << >>
    ELSE IF IsInject(Head(queue)) \/ IsEvaluate(Head(queue))
         THEN << [event |-> Head(queue).type, to |-> Head(queue).sid,
                  data |-> Head(queue).content] >> \o EmitsUntilInvalid(Tail(queue))
         ELSE << >>

(* The sio.emit calls of one loop, in the order they are made.             *)
RECURSIVE Emits(_)
Emits(queue) ==
    IF queue = << >> THEN << >>
    ELSE (IF IsInject(Head(queue)) \/ IsEvaluate(Head(queue))
          THEN << [event |-> Head(queue).type, to |-> Head(queue).sid,
                   data |-> Head(queue).content] >>
          ELSE << >>) \o Emits(Tail(queue))

(* A variant that reschedules after every exception.                       *)
AfterErrorRetry(err) == "scheduled"

(* What the periodic task does after an exception: a BrokenPipeError       *)
(* returns without rescheduling, any other one falls through to            *)
(* eventlet.spawn_after.                                                   *)
AfterError(err) == IF err = "BrokenPipeError" THEN "stopped" ELSE "scheduled"

ProcessMessageQueue ==
    /\ evaluator_type = "IpcInjector"
    /\ server = "alive"
    /\ queue_task.next = "scheduled"
    /\ IF ServerReachable
       THEN /\ msg_from_evaluator # << >>
            /\ injected' = injected \o Emitted(msg_from_evaluator)
            /\ evaluated' = evaluated \o EmittedEvaluates(msg_from_evaluator)
            /\ queue_task' = [queue_task EXCEPT !.next = "clearing",
                                                !.emitted = Len(msg_from_evaluator),
                                                !.emits = @ \o Emits(msg_from_evaluator)]
       ELSE /\ \E err \in TransportErrors :
                   queue_task' = [queue_task EXCEPT !.next = AfterError(err),
                                                   !.errors = @ \cup {err}]
            /\ UNCHANGED <<injected, evaluated>>
    /\ UNCHANGED <<evalVars, unloadVars, scripts, loaded_scripts, target_session_id,
                   msg_from_evaluator, app_process, attach_attempts, eval_handler,
                   inspector_on_start, inspector_on_completion, hooks_called,
                   load_result, load_calls, files, last_load, clients, msg_from_app,
                   sends, app_connect, triggered_evaluate, message_handle_running,
                   drain_pc, drain_pos, taken, server, manager, connects>>
    /\ UNCHANGED appVars

(* A variant of the slice assignment that removes what the loop has read.  *)
ClearedKeepUnread(queue, read) == SubSeq(queue, read + 1, Len(queue))

(* `queue[:] = []` and `queue = manager.list()`: the queue is empty         *)
(* afterwards, whatever it held.                                           *)
Cleared(queue, read) == << >>

(* What a clearing loses: the entries past the ones its loop has read.     *)
Unread(queue, read) == SubSeq(queue, read + 1, Len(queue))

(* process_message_queue, after its loop:                                  *)
(* shared_dict['msg_from_evaluator'][:] = [], then the rescheduling.  The  *)
(* main process appends to the queue from its own process, also between    *)
(* the loop and this statement.                                            *)
ProcessMessageQueueClear ==
    /\ evaluator_type = "IpcInjector"
    /\ server = "alive"
    /\ queue_task.next = "clearing"
    /\ IF ServerReachable
       THEN /\ msg_from_evaluator' = Cleared(msg_from_evaluator, queue_task.emitted)
            /\ queue_task' = [queue_task EXCEPT
                   !.next = "scheduled", !.emitted = 0,
                   !.lost = @ \o Unread(msg_from_evaluator, queue_task.emitted)]
       ELSE /\ \E err \in TransportErrors :
                   queue_task' = [queue_task EXCEPT !.next = AfterError(err),
                                                   !.emitted = 0,
                                                   !.errors = @ \cup {err}]
            /\ UNCHANGED msg_from_evaluator
    /\ UNCHANGED <<evalVars, unloadVars, scripts, loaded_scripts, target_session_id,
                   injected, app_process, attach_attempts, eval_handler,
                   inspector_on_start, inspector_on_completion, hooks_called,
                   load_result, load_calls, files, last_load, clients, msg_from_app,
                   sends, app_connect, triggered_evaluate, message_handle_running,
                   drain_pc, drain_pos, taken, server, manager, evaluated, connects>>
    /\ UNCHANGED appVars

(* A variant of the test that never takes the early return.               *)
NoScriptsIgnored(registry) == FALSE

(* load_scripts, the first test: `if not self.scripts`.                    *)
NoScripts(registry) == registry = << >>

(* load_scripts, the loop: the bundles whose files can all be read, in     *)
(* registry order; a failing one is skipped.                               *)
RECURSIVE LoadableBundles(_)
LoadableBundles(bundles) ==
    IF bundles = << >> THEN << >>
    ELSE (IF Readable(Head(bundles)) THEN << Head(bundles) >> ELSE << >>)
             \o LoadableBundles(Tail(bundles))

AttachInjections(bundles) ==
    [i \in 1..Len(bundles) |-> Injection("process", ScriptContent(bundles[i]), "attach")]

HookManagerLoadScripts ==
    /\ evaluator_type = "HookManager"
    /\ load_calls < MaxLoads
    /\ load_calls' = load_calls + 1
    /\ IF NoScripts(scripts)
       THEN /\ load_result' = LoadReturn(FALSE)
            /\ UNCHANGED <<eval_handler, attach_attempts, loaded_scripts, injected,
                           frida_session>>
       ELSE /\ eval_handler' = TRUE
            /\ IF app_process = "none"
               THEN \* self.app_process.pid raises: caught, return False
                    /\ load_result' = LoadReturn(FALSE)
                    /\ UNCHANGED <<attach_attempts, loaded_scripts, injected,
                                   frida_session>>
               ELSE /\ attach_attempts' = attach_attempts + 1
                    /\ IF app_process = "gone"
                       THEN \* frida.ProcessNotFoundError
                            /\ load_result' = LoadReturn(FALSE)
                            /\ UNCHANGED <<loaded_scripts, injected, frida_session>>
                       ELSE /\ frida_session' = TRUE
                            /\ loaded_scripts' = loaded_scripts \o LoadableBundles(scripts)
                            /\ injected' = injected \o AttachInjections(LoadableBundles(scripts))
                            /\ load_result' = LoadReturn(Len(loaded_scripts') > 0)
    /\ UNCHANGED <<evalVars, bridgeVars, unload_pc, unload_log, scripts,
                   target_session_id, msg_from_evaluator, app_process,
                   inspector_on_start, inspector_on_completion, hooks_called, files>>
    /\ last_load' = LoadRecord("HookManager", ~NoScripts(scripts) /\ app_process = "alive")
    /\ UNCHANGED appVars

(* A variant of the test that never takes the early return.               *)
NoSessionsIgnored(sessions) == FALSE

(* IpcInjector.load_scripts, the second test:                              *)
(* `if not self.shared_dict['target_session_id']`.                         *)
NoSessions(sessions) == sessions = << >>

(* A variant that addresses the first connected session only.              *)
RECURSIVE BridgeCommandsFirstSession(_, _)
BridgeCommandsFirstSession(bundles, sids) ==
    IF bundles = << >> THEN << >>
    ELSE (IF Readable(Head(bundles))
          THEN << InjectCommand(sids[1], ScriptContent(Head(bundles))) >>
          ELSE << >>) \o BridgeCommandsFirstSession(Tail(bundles), sids)

(* IpcInjector.load_scripts: one Inject command per readable bundle and    *)
(* connected session.                                                      *)
RECURSIVE BridgeCommands(_, _)
BridgeCommands(bundles, sids) ==
    IF bundles = << >> THEN << >>
    ELSE (IF Readable(Head(bundles))
          THEN [i \in 1..Len(sids) |-> InjectCommand(sids[i], ScriptContent(Head(bundles)))]
          ELSE << >>) \o BridgeCommands(Tail(bundles), sids)

IpcInjectorLoadScripts ==
    /\ evaluator_type = "IpcInjector"
    /\ load_calls < MaxLoads
    /\ load_calls' = load_calls + 1
    /\ eval_handler' = TRUE
    /\ IF ~Reachable
       THEN \* self.shared_dict['scripts'] raises outside the try block
            /\ load_result' = "raised"
            /\ UNCHANGED <<loaded_scripts, msg_from_evaluator>>
       ELSE IF NoScripts(scripts) \/ NoSessions(target_session_id)
       THEN /\ load_result' = LoadReturn(FALSE)
            /\ UNCHANGED <<loaded_scripts, msg_from_evaluator>>
       ELSE /\ msg_from_evaluator' =
                   msg_from_evaluator \o BridgeCommands(scripts, target_session_id)
            /\ loaded_scripts' = loaded_scripts \o LoadableBundles(scripts)
            /\ load_result' = LoadReturn(LoadableBundles(scripts) # << >>)
    /\ UNCHANGED <<evalVars, bridgeVars, unloadVars, scripts, target_session_id,
                   injected, app_process, attach_attempts, inspector_on_start,
                   inspector_on_completion, hooks_called, files>>
    /\ last_load' = LoadRecord("IpcInjector",
                               /\ Reachable
                               /\ ~NoScripts(scripts)
                               /\ ~NoSessions(target_session_id))
    /\ UNCHANGED appVars

(* StateInspector.load_scripts.  The modules' hooks: every script module   *)
(* has inspector_on_completion, "c.js" and "d.js" also inspector_on_start. *)
HasOnStart(path) == path \in {"c.js", "d.js"}
HasOnCompletion(path) == Exists(path)

(* One bundle: dep_script_list.append(script_path) changes the registered  *)
(* list itself; the modules are then imported in list order until one      *)
(* fails.  acc = [scripts, loaded, on_start, on_completion, called].       *)
RECURSIVE ImportModules(_, _)
ImportModules(paths, acc) ==
    IF paths = << >> THEN [acc EXCEPT !.ok = TRUE]
    ELSE IF ~Exists(Head(paths)) THEN [acc EXCEPT !.ok = FALSE]
    ELSE ImportModules(Tail(paths),
           [acc EXCEPT
              !.on_start = IF HasOnStart(Head(paths)) THEN Append(@, Head(paths)) ELSE @,
              !.called = IF HasOnStart(Head(paths))
                         THEN Append(@, [hook |-> "inspector_on_start", module |-> Head(paths)])
                         ELSE @,
              !.on_completion = IF HasOnCompletion(Head(paths))
                                THEN Append(@, Head(paths)) ELSE @])

RECURSIVE InspectorLoad(_, _)
InspectorLoad(i, acc) ==
    IF i > Len(acc.scripts) THEN acc
    ELSE LET bundle == << Primary(acc.scripts[i]),
                          Append(Dependencies(acc.scripts[i]), Primary(acc.scripts[i])) >>
             a1 == [acc EXCEPT !.scripts[i] = bundle]
             a2 == ImportModules(Dependencies(bundle), a1)
             a3 == IF a2.ok THEN [a2 EXCEPT !.loaded = Append(@, bundle)] ELSE a2
         IN InspectorLoad(i + 1, a3)

StateInspectorLoadScripts ==
    /\ evaluator_type = "StateInspector"
    /\ load_calls < MaxLoads
    /\ load_calls' = load_calls + 1
    /\ eval_handler' = TRUE
    /\ IF NoScripts(scripts)
       THEN /\ load_result' = LoadReturn(FALSE)
            /\ UNCHANGED <<scripts, loaded_scripts, inspector_on_start,
                           inspector_on_completion, hooks_called>>
       ELSE LET r == InspectorLoad(1, [scripts |-> scripts, loaded |-> loaded_scripts,
                                       on_start |-> inspector_on_start,
                                       on_completion |-> inspector_on_completion,
                                       called |-> hooks_called, ok |-> TRUE])
            IN /\ scripts' = r.scripts
               /\ loaded_scripts' = r.loaded
               /\ inspector_on_start' = r.on_start
               /\ inspector_on_completion' = r.on_completion
               /\ hooks_called' = r.called
               /\ load_result' = LoadReturn(Len(r.loaded) > 0)
    /\ UNCHANGED <<evalVars, bridgeVars, unloadVars, target_session_id,
                   msg_from_evaluator, injected, app_process, attach_attempts, files>>
    /\ last_load' = LoadRecord("StateInspector", ~NoScripts(scripts))
    /\ UNCHANGED appVars

-----------------------------------------------------------------------------
(* The bridge: target clients, the target -> evaluator queue and the drain *)
(* thread of the main process.                                             *)

(* The kinds of message a target sends: message.get("event_type").         *)
MessageKinds == {"start_success", "evaluate_on_completion", "app_event"}

(* send(sid, message) wraps the message; n numbers the messages as sent.   *)
QueuedMessage(kind, n) ==
    [type |-> "message", content |-> [event_type |-> kind, n |-> n]]

(* A connected client sends a message: the server's send handler appends   *)
(* it to msg_from_app, or logs the error when the append fails.            *)
Send ==
    /\ evaluator_type = "IpcInjector"
    /\ server = "alive"
    /\ clients # {}
    /\ sends < MaxSends
    /\ sends' = sends + 1
    /\ \E kind \in MessageKinds :
          msg_from_app' = IF ServerReachable
                          THEN Append(msg_from_app, QueuedMessage(kind, sends + 1))
                          ELSE msg_from_app
    /\ UNCHANGED <<evalVars, loadVars, unloadVars, clients, app_connect,
                   triggered_evaluate, message_handle_running, drain_pc, drain_pos,
                   taken, server, manager, queue_task, evaluated, connects>>
    /\ UNCHANGED appVars

(* A client disconnects.  The server registers no disconnect handler.      *)
Disconnect ==
    /\ evaluator_type = "IpcInjector"
    /\ \E sid \in clients : clients' = clients \ {sid}
    /\ UNCHANGED <<evalVars, loadVars, unloadVars, msg_from_app, sends, app_connect,
                   triggered_evaluate, message_handle_running, drain_pc, drain_pos,
                   taken, server, manager, queue_task, evaluated, connects>>
    /\ UNCHANGED appVars

(* The server process loses its connection to the manager: its accesses    *)
(* fail from now on, the main process's still succeed.                     *)
ServerCutOff ==
    /\ evaluator_type = "IpcInjector"
    /\ manager = "up"
    /\ manager' = "cut"
    /\ UNCHANGED <<evalVars, loadVars, unloadVars, clients, msg_from_app, sends,
                   app_connect, triggered_evaluate, message_handle_running, drain_pc,
                   drain_pos, taken, server, queue_task, evaluated, connects>>
    /\ UNCHANGED appVars

(* The manager process holding the shared collections goes away.           *)
ManagerDies ==
    /\ evaluator_type = "IpcInjector"
    /\ Reachable
    /\ manager' = "dead"
    /\ UNCHANGED <<evalVars, loadVars, unloadVars, clients, msg_from_app, sends,
                   app_connect, triggered_evaluate, message_handle_running, drain_pc,
                   drain_pos, taken, server, queue_task, evaluated, connects>>
    /\ UNCHANGED appVars

(* The launched target exits.                                              *)
TargetExits ==
    /\ evaluator_type = "HookManager"
    /\ app_process = "alive"
    /\ app_process' = "gone"
    /\ UNCHANGED <<evalVars, bridgeVars, unloadVars, scripts, loaded_scripts,
                   target_session_id, msg_from_evaluator, injected, attach_attempts,
                   eval_handler, inspector_on_start, inspector_on_completion,
                   hooks_called, load_result, load_calls, files, last_load>>
    /\ UNCHANGED appVars

(* A variant that hands every message to the sink, the handshake too.      *)
ForwardedAlways(kind, sink) == sink

(* _handle_messages.  on_message is the sink load_scripts stored           *)
(* (eval_handler); a message is forwarded iff it is no start_success and   *)
(* a sink is there.                                                        *)
Forwarded(kind, sink) == kind # "start_success" /\ sink

TakenMessage(content, sink, by) ==
    [event_type |-> content.event_type, n |-> content.n, sink |-> sink,
     forwarded |-> Forwarded(content.event_type, sink), by |-> by]

(* The drain thread's reaction to an exception: BrokenPipeError leaves the *)
(* loop, any other one is logged and the loop goes on after the sleep.     *)
DrainAfterError(err) == IF err = "BrokenPipeError" THEN "exited" ELSE "sleep"

drainUnchanged == <<evalVars, loadVars, unloadVars, clients, sends,
                    message_handle_running, server, manager, queue_task, evaluated,
                    connects>>

(* Top of the loop: `while self.message_handle_running`, then the read of  *)
(* shared_dict['msg_from_app'] that starts the pass.                       *)
DrainPass ==
    /\ evaluator_type = "IpcInjector"
    /\ drain_pc = "sleep"
    /\ IF ~message_handle_running THEN drain_pc' = "exited"
       ELSE IF Reachable THEN drain_pc' = "iterate"
       ELSE \E err \in TransportErrors : drain_pc' = DrainAfterError(err)
    /\ drain_pos' = 0
    /\ UNCHANGED <<drainUnchanged, msg_from_app, app_connect, triggered_evaluate, taken>>
    /\ UNCHANGED appVars

(* A variant that reads the queue from its end.                            *)
DrainNextFromEnd(queue, pos) == Len(queue) - pos

(* The index the pass reads next.                                          *)
DrainNext(queue, pos) == pos + 1

(* One iteration of `for message in ...`.                                  *)
DrainTake ==
    /\ drain_pc = "iterate"
    /\ Reachable
    /\ drain_pos < Len(msg_from_app)
    /\ LET content == msg_from_app[DrainNext(msg_from_app, drain_pos)].content
           kind == content.event_type
       IN /\ taken' = Append(taken, TakenMessage(content, eval_handler, "drain"))
          /\ app_connect' = IF kind = "start_success" THEN TRUE ELSE app_connect
          /\ triggered_evaluate' =
                IF Forwarded(kind, eval_handler) /\ kind = "evaluate_on_completion"
                THEN TRUE ELSE triggered_evaluate
    /\ drain_pos' = drain_pos + 1
    /\ UNCHANGED <<drainUnchanged, msg_from_app, drain_pc>>
    /\ UNCHANGED appVars

(* One iteration whose call of the sink raises part-way (the result        *)
(* collector refuses an event): `except Exception` logs it and the loop    *)
(* sleeps; the statement that replaces the queue is skipped, so the next   *)
(* pass iterates the same queue from its start.                            *)
DrainTakeRaises ==
    /\ drain_pc = "iterate"
    /\ Reachable
    /\ drain_pos < Len(msg_from_app)
    /\ Len(taken) < MaxTaken
    /\ LET content == msg_from_app[DrainNext(msg_from_app, drain_pos)].content
       IN /\ Forwarded(content.event_type, eval_handler)
          /\ taken' = Append(taken, TakenMessage(content, eval_handler, "drain"))
    /\ drain_pc' = DrainAfterError("Exception")
    /\ UNCHANGED <<drainUnchanged, msg_from_app, drain_pos, app_connect,
                   triggered_evaluate>>
    /\ UNCHANGED appVars

(* The iteration finds no further message.                                 *)
DrainEnd ==
    /\ drain_pc = "iterate"
    /\ Reachable
    /\ drain_pos >= Len(msg_from_app)
    /\ drain_pc' = "clear"
    /\ UNCHANGED <<drainUnchanged, msg_from_app, drain_pos, app_connect,
                   triggered_evaluate, taken>>
    /\ UNCHANGED appVars

(* shared_dict['msg_from_app'] = self.manager.list(): whatever the queue   *)
(* holds by now is dropped.                                                *)
DrainClear ==
    /\ drain_pc = "clear"
    /\ Reachable
    /\ msg_from_app' = Cleared(msg_from_app, drain_pos)
    /\ drain_pc' = "sleep"
    /\ UNCHANGED <<drainUnchanged, drain_pos, app_connect, triggered_evaluate, taken>>
    /\ UNCHANGED appVars

(* An access of the pass fails.                                            *)
DrainError ==
    /\ drain_pc \in {"iterate", "clear"}
    /\ ~Reachable
    /\ \E err \in TransportErrors : drain_pc' = DrainAfterError(err)
    /\ UNCHANGED <<drainUnchanged, msg_from_app, drain_pos, app_connect,
                   triggered_evaluate, taken>>
    /\ UNCHANGED appVars

-----------------------------------------------------------------------------
(* start_app and stop_app: the target application's process.               *)

(* What self.app_path is: not configured, a path that neither exists nor   *)
(* is found on the lookup path, an existing file, or a command found on    *)
(* the lookup path only.                                                   *)
NoPath == Absent

AppPaths == {NoPath, "missing", "file", "command"}

(* A variant that takes every configured path as resolved.                 *)
ResolvedAlways(backend, path) == path # NoPath

(* start_app's test of the path.  HookManager (and StateInspector, which   *)
(* inherits it) accepts an existing path or shutil.which's result;         *)
(* IpcInjector tests os.path.exists only.                                  *)
Resolved(backend, path) ==
    IF backend = "IpcInjector" THEN path = "file"
    ELSE path \in {"file", "command"}

(* What subprocess.Popen leaves behind: a running process, one that has    *)
(* exited at once, or no handle when Popen raised (caught and logged).     *)
PopenOutcomes == {"alive", "gone", "none"}

NoAppCalls == [start |-> Absent, pc |-> "idle", log |-> << >>, stops |-> 0,
               waited |-> 0, ended |-> Absent, evaluator |-> << >>]

(* start_app: launches the executable if the path resolves; whatever       *)
(* happens it sets app_started and returns True.                           *)
StartApp ==
    /\ app_calls.start = Absent
    /\ app_calls.pc = "idle"
    /\ ~app_started
    /\ IF Resolved(evaluator_type, app_path)
       THEN \E outcome \in PopenOutcomes : app_process' = outcome
       ELSE UNCHANGED app_process
    /\ app_started' = TRUE
    /\ app_calls' = [app_calls EXCEPT !.start = "True"]
    /\ UNCHANGED <<evalVars, bridgeVars, unloadVars, scripts, loaded_scripts,
                   target_session_id, msg_from_evaluator, injected, attach_attempts,
                   eval_handler, inspector_on_start, inspector_on_completion,
                   hooks_called, load_result, load_calls, files, last_load, app_path,
                   config_scripts>>

(* IpcInjector.start_app up to the readiness wait.  The wait is inside     *)
(* the try block that follows Popen: a path that does not resolve, or a    *)
(* Popen that raises, goes straight to `self.app_started = True; return    *)
(* True`.  A process that has exited at once is only logged.               *)
StartAppBridge ==
    /\ evaluator_type = "IpcInjector"
    /\ app_calls.start = Absent
    /\ app_calls.pc = "idle"
    /\ ~app_started
    /\ IF Resolved(evaluator_type, app_path)
       THEN \E outcome \in PopenOutcomes :
               /\ app_process' = outcome
               /\ IF outcome = "none"
                  THEN /\ app_started' = TRUE
                       /\ app_calls' = [app_calls EXCEPT !.start = "True"]
                  ELSE /\ app_calls' = [app_calls EXCEPT !.pc = "wait", !.waited = 0]
                       /\ UNCHANGED app_started
       ELSE /\ app_started' = TRUE
            /\ app_calls' = [app_calls EXCEPT !.start = "True"]
            /\ UNCHANGED app_process
    /\ UNCHANGED <<evalVars, bridgeVars, unloadVars, scripts, loaded_scripts,
                   target_session_id, msg_from_evaluator, injected, attach_attempts,
                   eval_handler, inspector_on_start, inspector_on_completion,
                   hooks_called, load_result, load_calls, files, last_load, app_path,
                   config_scripts>>

(* A variant of the wait that looks at the connected flag only.            *)
WaitEndsFlagOnly(connected, sessions, waited) ==
    IF waited >= MaxWaitPolls THEN "ceiling"
    ELSE IF connected THEN "connected"
    ELSE "sleep"

(* One turn of `while time.time() - start_wait < max_wait_time`: what      *)
(* ends the wait, or "sleep" for time.sleep(0.5).  MaxWaitPolls stands for *)
(* the 600 s.                                                              *)
WaitEnds(connected, sessions, waited) ==
    IF waited >= MaxWaitPolls THEN "ceiling"
    ELSE IF connected THEN "connected"
    ELSE IF sessions # << >> THEN "session"
    ELSE "sleep"

(* The readiness wait and the return.  Reading the shared session list     *)
(* raises when the manager is gone; the exception is logged.               *)
StartAppWait ==
    /\ evaluator_type = "IpcInjector"
    /\ app_calls.pc = "wait"
    /\ LET end == IF app_calls.waited < MaxWaitPolls /\ ~app_connect /\ ~Reachable
                  THEN "error"
                  ELSE WaitEnds(app_connect, target_session_id, app_calls.waited)
       IN IF end = "sleep"
          THEN /\ app_calls' = [app_calls EXCEPT !.waited = @ + 1]
               /\ UNCHANGED <<app_started, app_connect>>
          ELSE /\ app_connect' = (app_connect \/ end = "session")
               /\ app_started' = TRUE
               /\ app_calls' = [app_calls EXCEPT !.pc = "idle", !.start = "True",
                                                 !.ended = end]
    /\ UNCHANGED <<evalVars, loadVars, unloadVars, clients, msg_from_app, sends,
                   triggered_evaluate, message_handle_running, drain_pc, drain_pos,
                   taken, server, manager, queue_task, evaluated, connects,
                   app_path, config_scripts>>

appUnchanged == <<evalVars, bridgeVars, unloadVars, scripts, loaded_scripts,
                  target_session_id, msg_from_evaluator, injected, attach_attempts,
                  eval_handler, inspector_on_start, inspector_on_completion,
                  hooks_called, load_result, load_calls, files, last_load, app_path,
                  app_started, config_scripts>>

(* stop_app is called: `if hasattr(self, 'app_process') and                *)
(* self.app_process`, without a handle the call does nothing.              *)
StopApp ==
    /\ app_calls.pc \in {"idle", "returned"}
    /\ app_calls.stops < MaxStopApps
    /\ app_calls' = [app_calls EXCEPT
          !.pc = IF app_process = "none" THEN "returned" ELSE "signal",
          !.log = << >>,
          !.stops = @ + 1]
    /\ UNCHANGED <<appUnchanged, app_process>>

(* self.app_process.send_signal(signal.SIGTERM)                            *)
StopAppSignal ==
    /\ app_calls.pc = "signal"
    /\ app_calls' = [app_calls EXCEPT !.pc = "wait10", !.log = Append(@, "SIGTERM")]
    /\ UNCHANGED <<appUnchanged, app_process>>

(* A variant that goes on to the next step whatever the wait returned.     *)
AfterWaitEscalate(pc, outcome) == IF pc = "wait10" THEN "terminate" ELSE "kill"

(* Where stop_app goes after wait(timeout=10) and wait(timeout=5): it      *)
(* returns when the process has exited, and takes the TimeoutExpired       *)
(* branch otherwise.                                                       *)
AfterWait(pc, outcome) ==
    IF outcome = "exited" THEN "returned"
    ELSE IF pc = "wait10" THEN "terminate" ELSE "kill"

(* self.app_process.wait(timeout=...): the process has exited, exits       *)
(* within the wait, or is still alive when the wait times out.             *)
StopAppWait ==
    /\ app_calls.pc \in {"wait10", "wait5"}
    /\ \E outcome \in {"exited", "timeout"} :
          /\ app_process = "gone" => outcome = "exited"
          /\ app_process' = IF outcome = "exited" THEN "gone" ELSE app_process
          /\ app_calls' = [app_calls EXCEPT !.pc = AfterWait(app_calls.pc, outcome),
                                            !.log = Append(@, outcome)]
    /\ UNCHANGED appUnchanged

(* self.app_process.terminate() after the first timeout.                   *)
StopAppTerminate ==
    /\ app_calls.pc = "terminate"
    /\ app_calls' = [app_calls EXCEPT !.pc = "wait5", !.log = Append(@, "terminate")]
    /\ UNCHANGED <<appUnchanged, app_process>>

(* self.app_process.kill() after the second timeout; stop_app returns      *)
(* without waiting again.                                                  *)
StopAppKill ==
    /\ app_calls.pc = "kill"
    /\ app_calls' = [app_calls EXCEPT !.pc = "returned", !.log = Append(@, "kill")]
    /\ app_process' = "gone"
    /\ UNCHANGED appUnchanged

(* A step of stop_app raises (a signal that cannot be sent, a failing      *)
(* wait): the outer `except Exception` logs it and stop_app returns.       *)
StopAppRaises ==
    /\ app_calls.pc \in {"signal", "wait10", "terminate", "wait5", "kill"}
    /\ app_calls' = [app_calls EXCEPT !.pc = "returned", !.log = Append(@, "raised")]
    /\ UNCHANGED <<appUnchanged, app_process>>

-----------------------------------------------------------------------------
(* unload_scripts and trigger_evaluate_on_completion.                      *)

(* The backend state unload_scripts works on.                              *)
BackendState ==
    [loaded_scripts |-> loaded_scripts, target_session_id |-> target_session_id,
     message_handle_running |-> message_handle_running, server |-> server,
     manager |-> manager, frida_session |-> frida_session,
     eval_handler |-> eval_handler, inspector_on_start |-> inspector_on_start,
     inspector_on_completion |-> inspector_on_completion]

(* A variant with no try block around the body of unload_scripts.          *)
UnloadEscapesUncaught(raised) == raised

(* Does an exception raised inside unload_scripts leave it?  The attach    *)
(* and bridge backends wrap the whole body in try/except Exception; the    *)
(* library backend's body raises nothing once the trigger caught its own.  *)
UnloadEscapes(raised) == FALSE

(* History of one unload_scripts call: the trigger's outcome ("none" when  *)
(* not configured), the steps in order (the trigger when invoked, then the *)
(* teardown statements completed), the session set the trigger read and    *)
(* the commands it enqueued, whether the server's periodic task was still  *)
(* scheduled, the backend state before and after.                          *)
UnloadRecord(backend, trigger, steps, raised, sessions, enqueued) ==
    [backend |-> backend, trigger |-> trigger, steps |-> steps,
     returned |-> ~UnloadEscapes(raised), sessions |-> sessions,
     enqueued |-> enqueued, relay |-> queue_task.next,
     before |-> BackendState, after |-> BackendState']

TriggerStep == IF evaluate_on_completion THEN << "trigger" >> ELSE << >>

EvaluateCommand(sid) == [type |-> "evaluate", sid |-> sid, content |-> Absent]

(* A variant that addresses the first session only.                        *)
EvaluateFirstSession(sessions) ==
    IF sessions = << >> THEN << >> ELSE << EvaluateCommand(sessions[1]) >>

(* IpcInjector.trigger_evaluate_on_completion, `for sid in sessions`.      *)
EvaluateCommands(sessions) ==
    [i \in 1..Len(sessions) |-> EvaluateCommand(sessions[i])]

(* IpcInjector.unload_scripts after the trigger: the first statement       *)
(* raises when the shared collections cannot be reached, and the except    *)
(* clause skips the rest.                                                  *)
BridgeTeardownSteps ==
    IF Reachable
    THEN << "release_scripts", "clear_sessions", "stop_drain", "terminate_server",
            "shutdown_manager" >>
    ELSE << >>

BridgeTeardown ==
    IF Reachable
    THEN /\ loaded_scripts' = << >>
         /\ target_session_id' = << >>
         /\ message_handle_running' = FALSE
         /\ server' = "terminated"
         /\ clients' = {}
         /\ manager' = "shutdown"
    ELSE UNCHANGED <<loaded_scripts, target_session_id, message_handle_running,
                     server, clients, manager>>

bridgeUnloadUnchanged ==
    <<evalVars, scripts, injected, app_process, attach_attempts, eval_handler,
      inspector_on_start, inspector_on_completion, hooks_called, load_result,
      load_calls, files, last_load, msg_from_app, sends, app_connect,
      triggered_evaluate, drain_pc, drain_pos, taken, queue_task, evaluated,
      connects, frida_session>>

(* IpcInjector.unload_scripts is called.  With evaluate_on_completion the  *)
(* trigger reads the session set, enqueues its commands and starts to      *)
(* poll; it raises at once when the set cannot be read.                    *)
IpcInjectorUnloadScripts ==
    /\ evaluator_type = "IpcInjector"
    /\ unload_pc = "idle"
    /\ Len(unload_log) < MaxUnloads
    /\ IF evaluate_on_completion /\ Reachable
       THEN /\ msg_from_evaluator' =
                   msg_from_evaluator \o EvaluateCommands(target_session_id)
            /\ unload_pc' = "waiting"
            /\ UNCHANGED <<loaded_scripts, target_session_id, message_handle_running,
                           server, clients, manager>>
       ELSE IF evaluate_on_completion
       THEN UNCHANGED <<msg_from_evaluator, unload_pc, loaded_scripts,
                        target_session_id, message_handle_running, server, clients,
                        manager>>
       ELSE /\ BridgeTeardown
            /\ UNCHANGED <<msg_from_evaluator, unload_pc>>
    /\ UNCHANGED bridgeUnloadUnchanged
    /\ unload_log' = Append(unload_log,
          IF evaluate_on_completion /\ Reachable
          THEN UnloadRecord("IpcInjector", "waiting", TriggerStep, FALSE,
                            target_session_id, EvaluateCommands(target_session_id))
          ELSE IF evaluate_on_completion
          THEN UnloadRecord("IpcInjector", "raised", TriggerStep, TRUE, << >>, << >>)
          ELSE UnloadRecord("IpcInjector", "none", BridgeTeardownSteps, ~Reachable,
                            << >>, << >>))
    /\ UNCHANGED appVars

(* The trigger's poll loop ends: the flag was seen set, or 10 s passed.    *)
(* unload_scripts then tears down and returns.                             *)
TriggerReturn ==
    /\ evaluator_type = "IpcInjector"
    /\ unload_pc = "waiting"
    /\ unload_pc' = "idle"
    /\ BridgeTeardown
    /\ UNCHANGED <<bridgeUnloadUnchanged, msg_from_evaluator>>
    /\ unload_log' = [unload_log EXCEPT ![Len(unload_log)] =
          [@ EXCEPT !.trigger = IF triggered_evaluate THEN "acknowledged"
                                                      ELSE "timed_out",
                    !.steps = @ \o BridgeTeardownSteps,
                    !.returned = ~UnloadEscapes(~Reachable),
                    !.after = BackendState']]
    /\ UNCHANGED appVars

(* HookManager.unload_scripts.  The trigger calls the sink on this thread  *)
(* (a TypeError when no sink was stored); script.unload() raises when the  *)
(* target is gone.  Either exception skips the rest of the body.           *)
HookManagerUnloadScripts ==
    /\ evaluator_type = "HookManager"
    /\ Len(unload_log) < MaxUnloads
    /\ LET trigger_raises == evaluate_on_completion /\ ~eval_handler
           unload_raises == /\ ~trigger_raises
                            /\ loaded_scripts # << >>
                            /\ app_process = "gone"
           raised == trigger_raises \/ unload_raises
       IN /\ taken' = IF evaluate_on_completion /\ eval_handler
                      THEN Append(taken,
                             TakenMessage([event_type |-> "evaluate_on_completion",
                                           n |-> 0], TRUE, "unload"))
                      ELSE taken
          /\ IF raised
             THEN UNCHANGED <<loaded_scripts, frida_session>>
             ELSE /\ loaded_scripts' = << >>
                  /\ frida_session' = FALSE
          /\ UNCHANGED <<evalVars, scripts, target_session_id, msg_from_evaluator,
                         injected, app_process, attach_attempts, eval_handler,
                         inspector_on_start, inspector_on_completion, hooks_called,
                         load_result, load_calls, files, last_load, clients,
                         msg_from_app, sends, app_connect, triggered_evaluate,
                         message_handle_running, drain_pc, drain_pos, server, manager,
                         queue_task, evaluated, connects, unload_pc>>
          /\ unload_log' = Append(unload_log,
                UnloadRecord("HookManager",
                   IF ~evaluate_on_completion THEN "none"
                   ELSE IF trigger_raises THEN "raised" ELSE "returned",
                   TriggerStep
                      \o (IF raised THEN << >>
                                    ELSE << "release_scripts", "detach_session" >>),
                   raised, << >>, << >>))
    /\ UNCHANGED appVars

(* The completion hooks of these modules raise.                            *)
HookRaises(path) == path = "b.js"

(* StateInspector.trigger_evaluate_on_completion: the hooks are called in  *)
(* order inside one try block, so the first that raises ends the loop.     *)
RECURSIVE CompletionCalls(_)
CompletionCalls(hooks) ==
    IF hooks = << >> THEN << >>
    ELSE << [hook |-> "inspector_on_completion", module |-> Head(hooks)] >>
            \o (IF HookRaises(Head(hooks)) THEN << >> ELSE CompletionCalls(Tail(hooks)))

StateInspectorUnloadScripts ==
    /\ evaluator_type = "StateInspector"
    /\ Len(unload_log) < MaxUnloads
    /\ hooks_called' = IF evaluate_on_completion
                       THEN hooks_called \o CompletionCalls(inspector_on_completion)
                       ELSE hooks_called
    /\ inspector_on_completion' = << >>
    /\ inspector_on_start' = << >>
    /\ eval_handler' = FALSE
    /\ loaded_scripts' = << >>
    /\ UNCHANGED <<evalVars, bridgeVars, scripts, target_session_id,
                   msg_from_evaluator, injected, app_process, attach_attempts,
                   load_result, load_calls, files, last_load, frida_session, unload_pc>>
    /\ unload_log' = Append(unload_log,
          UnloadRecord("StateInspector",
             IF ~evaluate_on_completion THEN "none"
             ELSE IF \E i \in 1..Len(inspector_on_completion) :
                        HookRaises(inspector_on_completion[i])
                  THEN "raised" ELSE "returned",
             TriggerStep \o << "release_scripts" >>, FALSE, << >>, << >>))
    /\ UNCHANGED appVars

-----------------------------------------------------------------------------

InitBackendQueue(registry, queue) ==
    /\ scripts = registry
    /\ loaded_scripts = << >>
    /\ target_session_id = << >>
    /\ msg_from_evaluator = queue
    /\ injected = << >>
    /\ attach_attempts = 0
    /\ eval_handler = FALSE
    /\ inspector_on_start = << >>
    /\ inspector_on_completion = << >>
    /\ hooks_called = << >>
    /\ load_result = Absent
    /\ load_calls = 0
    /\ files = AllFiles
    /\ last_load = NoLoad
    /\ clients = {}
    /\ msg_from_app = << >>
    /\ sends = 0
    /\ app_connect = FALSE
    /\ triggered_evaluate = FALSE
    /\ message_handle_running = TRUE
    /\ drain_pc = "sleep"
    /\ drain_pos = 0
    /\ taken = << >>
    /\ server = "alive"
    /\ manager = "up"
    /\ queue_task = [next |-> "scheduled", errors |-> {}, emitted |-> 0, lost |-> << >>,
                     emits |-> << >>]
    /\ evaluated = << >>
    /\ connects = << >>
    /\ frida_session = FALSE
    /\ unload_pc = "idle"
    /\ unload_log = << >>

InitEvaluator ==
    /\ is_running = FALSE
    /\ final_callback_triggered = FALSE
    /\ raw_events = << >>
    /\ key_steps = << >>
    /\ callbacks_fired = << >>
    /\ session_ended = FALSE
    /\ sink_open = FALSE
    /\ main_pc = "init"
    /\ stop_context = NoContext
    /\ pending = [t \in Threads |-> << >>]
    /\ in_msg = [t \in Threads |-> NoMsg]
    /\ handled = << >>

(* The application state that goes with app_process: start_app has run    *)
(* iff there is a process handle.                                          *)
InitApp ==
    /\ config_scripts = << >>
    /\ app_path = IF app_process = "none" THEN NoPath ELSE "file"
    /\ app_started = (app_process # "none")
    /\ app_calls = [NoAppCalls EXCEPT !.start = IF app_process = "none"
                                                THEN Absent ELSE "True"]

InitBackendWith(registry) == InitBackendQueue(registry, << >>)

InitBackend == InitBackendWith(<< >>)

(* The evaluator after construction, on any of the three backends.         *)
Init ==
    /\ evaluator_type \in Backends
    /\ evaluate_on_completion \in BOOLEAN
    /\ message_handler \in BOOLEAN
    /\ InitEvaluator
    /\ InitBackend
    /\ app_process = "none"
    /\ InitApp

Next ==
    \/ Start
    \/ SinkDeliver
    \/ SinkStep
    \/ ExternalStop
    \/ PlainStop
    \/ UnloadTrigger
    \/ UnloadTriggerStep
    \/ UnloadTeardown
    \/ StopCheck
    \/ StopRecord
    \/ StopEnd

Spec == Init /\ [][Next]_vars

(* The running evaluator receiving messages whose handling returns the    *)
(* less common results.                                                    *)
InitUpdates ==
    /\ Init
    /\ evaluator_type \in {"HookManager", "IpcInjector"}
    /\ message_handler

NextUpdates ==
    \/ Start
    \/ SinkDeliverUpdates
    \/ SinkStep

SpecUpdates == InitUpdates /\ [][NextUpdates]_vars

(* The evaluator with a result collector that may refuse an event.         *)
NextStop ==
    \/ Next
    \/ StopRaises

SpecStop == Init /\ [][NextStop]_vars

(* The evaluator with a caller that calls start() again after stop().      *)
NextRestart ==
    \/ Next
    \/ StartAgain

SpecRestart == Init /\ [][NextRestart]_vars

(* A backend after construction, before and after the target was started.  *)
InitLoad ==
    /\ evaluator_type \in Backends
    /\ evaluate_on_completion = FALSE
    /\ message_handler = TRUE
    /\ InitEvaluator
    /\ InitBackend
    /\ app_process \in {"none", "alive", "gone"}
    /\ InitApp

NextLoad ==
    \/ AddScript
    \/ Connect
    \/ ProcessMessageQueue
    \/ ProcessMessageQueueClear
    \/ HookManagerLoadScripts
    \/ IpcInjectorLoadScripts
    \/ StateInspectorLoadScripts

SpecLoad == InitLoad /\ [][NextLoad]_vars

(* The backends from load to unload, with the bridge's server process,     *)
(* target clients and drain thread.  BaseEvaluator.__init__ has registered *)
(* the task's bundles.                                                     *)
Registries ==
    { << >>,
      << << "c.js", << "a.js", "b.js" >> >> >>,
      << << "c.js", << "gone.js" >> >>, << "d.js", << >> >> >> }

InitBackends ==
    /\ evaluator_type \in Backends
    /\ evaluate_on_completion \in BOOLEAN
    /\ message_handler = TRUE
    /\ InitEvaluator
    /\ \E registry \in Registries : InitBackendWith(registry)
    /\ app_process \in {"none", "alive"}
    /\ InitApp

NextBackends ==
    \/ Connect
    \/ Disconnect
    \/ ServerCutOff
    \/ ManagerDies
    \/ TargetExits
    \/ HookManagerLoadScripts
    \/ IpcInjectorLoadScripts
    \/ StateInspectorLoadScripts
    \/ HookManagerUnloadScripts
    \/ IpcInjectorUnloadScripts
    \/ TriggerReturn
    \/ StateInspectorUnloadScripts

SpecBackends == InitBackends /\ [][NextBackends]_vars

(* load_scripts called again after script files have disappeared.          *)
NextReload ==
    \/ RemoveFile
    \/ Connect
    \/ HookManagerLoadScripts
    \/ IpcInjectorLoadScripts
    \/ StateInspectorLoadScripts

SpecReload == InitBackends /\ [][NextReload]_vars

(* The bridge with one registered bundle.                                  *)
InitBridge(on_completion) ==
    /\ evaluator_type = "IpcInjector"
    /\ evaluate_on_completion = on_completion
    /\ message_handler = TRUE
    /\ InitEvaluator
    /\ InitBackendWith(<< << "c.js", << "a.js", "b.js" >> >> >>)
    /\ app_process = "alive"
    /\ InitApp

(* Target clients that send messages, the drain thread, load_scripts       *)
(* storing the sink, and an unload_scripts that makes no trigger.          *)
InitDrain == InitBridge(FALSE)

NextDrain ==
    \/ Connect
    \/ Send
    \/ DrainPass
    \/ DrainTake
    \/ DrainEnd
    \/ DrainClear
    \/ DrainError
    \/ IpcInjectorLoadScripts
    \/ IpcInjectorUnloadScripts

SpecDrain == InitDrain /\ [][NextDrain]_vars

(* The same with evaluate_on_completion configured: unload_scripts waits   *)
(* in the trigger while the target may or may not acknowledge.             *)
InitTrigger == InitBridge(TRUE)

NextTrigger ==
    \/ NextDrain
    \/ TriggerReturn

SpecTrigger == InitTrigger /\ [][NextTrigger]_vars

(* A backend after construction with any configured executable:           *)
(* start_app, the target's own exit, and stop_app calls.                   *)
InitLifecycle ==
    /\ evaluator_type \in Backends
    /\ evaluate_on_completion = FALSE
    /\ message_handler = TRUE
    /\ InitEvaluator
    /\ InitBackend
    /\ app_process = "none"
    /\ config_scripts = << >>
    /\ app_path \in AppPaths
    /\ app_started = FALSE
    /\ app_calls = NoAppCalls

NextLifecycle ==
    \/ StartApp
    \/ StopApp
    \/ StopAppSignal
    \/ StopAppWait
    \/ StopAppTerminate
    \/ StopAppKill
    \/ StopAppRaises

SpecLifecycle == InitLifecycle /\ [][NextLifecycle]_vars

(* BaseEvaluator.__init__ on a configuration with up to MaxScripts hook    *)
(* entries, some of them naming files that are not there.                  *)
Configs ==
    UNION { [1..n -> Bundles] : n \in 0..MaxScripts }

InitConstruct ==
    /\ evaluator_type \in Backends
    /\ evaluate_on_completion = FALSE
    /\ message_handler = TRUE
    /\ is_running = FALSE
    /\ final_callback_triggered = FALSE
    /\ raw_events = << >>
    /\ key_steps = << >>
    /\ callbacks_fired = << >>
    /\ session_ended = FALSE
    /\ sink_open = FALSE
    /\ main_pc = "construct"
    /\ stop_context = NoContext
    /\ pending = [t \in Threads |-> << >>]
    /\ in_msg = [t \in Threads |-> NoMsg]
    /\ handled = << >>
    /\ InitBackend
    /\ app_process = "none"
    /\ config_scripts \in Configs
    /\ app_path = NoPath
    /\ app_started = FALSE
    /\ app_calls = NoAppCalls

NextConstruct ==
    \/ RegisterScript
    \/ ConstructReturn

SpecConstruct == InitConstruct /\ [][NextConstruct]_vars

(* The bridge's evaluator -> target path: load_scripts and unload_scripts  *)
(* enqueue, the server's periodic task relays, and the server process or   *)
(* the manager may be lost.                                                *)
InitRelay ==
    /\ InitBackends
    /\ evaluator_type = "IpcInjector"

NextRelay ==
    \/ Connect
    \/ ServerCutOff
    \/ ManagerDies
    \/ ProcessMessageQueue
    \/ ProcessMessageQueueClear
    \/ IpcInjectorLoadScripts
    \/ IpcInjectorUnloadScripts
    \/ TriggerReturn

SpecRelay == InitRelay /\ [][NextRelay]_vars

(* One pass of the periodic task over any pending queue.  The commands    *)
(* the loop tells apart: well-formed ones, an inject without sid or        *)
(* without content, an evaluate without sid, and an unknown type.          *)
PassCommands ==
    { InjectCommand("sid1", ScriptContent(<< "d.js", << >> >>)),
      EvaluateCommand("sid2"),
      InjectCommand(Absent, ScriptContent(<< "d.js", << >> >>)),
      InjectCommand("sid1", Absent),
      EvaluateCommand(Absent),
      [type |-> "ping", sid |-> "sid1", content |-> Absent] }

RECURSIVE Pending(_)
Pending(len) ==
    IF len = 0 THEN { << >> }
    ELSE Pending(len - 1) \cup
         { Append(queue, cmd) : queue \in { q \in Pending(len - 1) : Len(q) = len - 1 },
                                cmd \in PassCommands }

InitPass ==
    /\ evaluator_type = "IpcInjector"
    /\ evaluate_on_completion = FALSE
    /\ message_handler = TRUE
    /\ InitEvaluator
    /\ \E queue \in Pending(MaxPending) : InitBackendQueue(<< >>, queue)
    /\ app_process = "alive"
    /\ InitApp

NextPass ==
    \/ ProcessMessageQueue
    \/ ProcessMessageQueueClear

SpecPass == InitPass /\ [][NextPass]_vars

(* The bridge's start_app against the target's clients: a client          *)
(* connects, sends its messages, and the drain thread takes them.          *)
InitHandshake ==
    /\ evaluator_type = "IpcInjector"
    /\ evaluate_on_completion = FALSE
    /\ message_handler = TRUE
    /\ InitEvaluator
    /\ InitBackend
    /\ app_process = "none"
    /\ config_scripts = << >>
    /\ app_path \in AppPaths
    /\ app_started = FALSE
    /\ app_calls = NoAppCalls

NextHandshake ==
    \/ StartAppBridge
    \/ StartAppWait
    \/ Connect
    \/ Send
    \/ DrainPass
    \/ DrainTake
    \/ DrainEnd
    \/ DrainClear
    \/ DrainError
    \/ ManagerDies

SpecHandshake == InitHandshake /\ [][NextHandshake]_vars

(* stop() with evaluate_on_completion, the evaluator and its backend      *)
(* together.  On the bridge the trigger enqueues the evaluate commands,    *)
(* the server relays them, the target answers each with an                 *)
(* evaluate_on_completion message, and the drain thread passes the answers *)
(* to the sink while the main thread polls the acknowledgment flag.        *)

(* start() stores the sink in the bridge backend: load_scripts.            *)
StartLoad ==
    /\ main_pc = "loop"
    /\ load_calls = 0
    /\ IpcInjectorLoadScripts

StopAfterLoad ==
    /\ evaluator_type = "IpcInjector" => load_calls > 0
    /\ PlainStop

(* The target's answer to an evaluate signal it has received.              *)
TargetAnswers ==
    /\ evaluator_type = "IpcInjector"
    /\ server = "alive"
    /\ ServerReachable
    /\ clients # {}
    /\ sends < Len(evaluated)
    /\ sends < MaxSends
    /\ sends' = sends + 1
    /\ msg_from_app' = Append(msg_from_app,
                              QueuedMessage("evaluate_on_completion", sends + 1))
    /\ UNCHANGED <<evalVars, loadVars, unloadVars, clients, app_connect,
                   triggered_evaluate, message_handle_running, drain_pc, drain_pos,
                   taken, server, manager, queue_task, evaluated, connects>>
    /\ UNCHANGED appVars

(* A variant that sets the acknowledgment flag before the sink is called.  *)
AckAtCall(point, kind) == point = "call" /\ kind = "evaluate_on_completion"

(* _handle_messages sets triggered_evaluate after self.on_message has      *)
(* returned.                                                               *)
AckAt(point, kind) == point = "return" /\ kind = "evaluate_on_completion"

(* One iteration of the drain's loop for a forwarded message, first part:  *)
(* self.on_message(content, None) is called and the handler runs.          *)
DrainForward ==
    /\ evaluator_type = "IpcInjector"
    /\ drain_pc = "iterate"
    /\ Reachable
    /\ drain_pos < Len(msg_from_app)
    /\ LET content == msg_from_app[DrainNext(msg_from_app, drain_pos)].content
       IN /\ Forwarded(content.event_type, eval_handler)
          /\ taken' = Append(taken, TakenMessage(content, eval_handler, "drain"))
          /\ triggered_evaluate' =
                (triggered_evaluate \/ AckAt("call", content.event_type))
    /\ \E result \in HandlerResults : OnMessageCall("sink", result)
    /\ drain_pc' = "sink"
    /\ UNCHANGED <<evaluator_type, evaluate_on_completion, message_handler, is_running,
                   session_ended, sink_open, main_pc, stop_context, loadVars,
                   unloadVars, clients, msg_from_app, sends, app_connect,
                   message_handle_running, drain_pos, server, manager, queue_task,
                   evaluated, connects>>
    /\ UNCHANGED appVars

(* Second part: on_message has returned; the flag is set for an            *)
(* evaluate_on_completion message and the loop goes to the next message.   *)
DrainAck ==
    /\ evaluator_type = "IpcInjector"
    /\ drain_pc = "sink"
    /\ pending["sink"] = << >>
    /\ triggered_evaluate' =
          (triggered_evaluate
             \/ AckAt("return", msg_from_app[DrainNext(msg_from_app, drain_pos)]
                                    .content.event_type))
    /\ drain_pos' = drain_pos + 1
    /\ drain_pc' = "iterate"
    /\ UNCHANGED <<drainUnchanged, msg_from_app, app_connect, taken>>
    /\ UNCHANGED appVars

(* stop() on the bridge: unload_scripts calls the trigger, which enqueues  *)
(* one evaluate command per session and starts to poll.                    *)
StopTrigger ==
    /\ evaluator_type = "IpcInjector"
    /\ evaluate_on_completion
    /\ main_pc = "unload"
    /\ Reachable
    /\ main_pc' = "unload_wait"
    /\ msg_from_evaluator' = msg_from_evaluator \o EvaluateCommands(target_session_id)
    /\ unload_pc' = "waiting"
    /\ UNCHANGED <<evaluator_type, evaluate_on_completion, message_handler, is_running,
                   storeVars, session_ended, sink_open, stop_context, pending, in_msg,
                   handled, scripts, loaded_scripts, target_session_id, injected,
                   app_process, attach_attempts, eval_handler, inspector_on_start,
                   inspector_on_completion, hooks_called, load_result, load_calls,
                   files, last_load, bridgeVars, frida_session>>
    /\ unload_log' = Append(unload_log,
          UnloadRecord("IpcInjector", "waiting", TriggerStep, FALSE,
                       target_session_id, EvaluateCommands(target_session_id)))
    /\ UNCHANGED appVars

(* The poll loop ends, on the flag or after its 10 s; unload_scripts tears *)
(* the bridge down and stop() goes on to its test of the final flag.       *)
StopTriggerReturn ==
    /\ evaluator_type = "IpcInjector"
    /\ main_pc = "unload_wait"
    /\ main_pc' = "check"
    /\ sink_open' = FALSE
    /\ unload_pc' = "idle"
    /\ BridgeTeardown
    /\ UNCHANGED <<evaluator_type, evaluate_on_completion, message_handler, is_running,
                   storeVars, session_ended, stop_context, pending, in_msg, handled,
                   scripts, msg_from_evaluator, injected, app_process, attach_attempts,
                   eval_handler, inspector_on_start, inspector_on_completion,
                   hooks_called, load_result, load_calls, files, last_load,
                   msg_from_app, sends, app_connect, triggered_evaluate, drain_pc,
                   drain_pos, taken, queue_task, evaluated, connects, frida_session>>
    /\ unload_log' = [unload_log EXCEPT ![Len(unload_log)] =
          [@ EXCEPT !.trigger = IF triggered_evaluate THEN "acknowledged"
                                                      ELSE "timed_out",
                    !.steps = @ \o BridgeTeardownSteps,
                    !.returned = ~UnloadEscapes(~Reachable),
                    !.after = BackendState']]
    /\ UNCHANGED appVars

(* The in-process backends' unload_scripts returns.                        *)
UnloadTeardownInProcess ==
    /\ evaluator_type # "IpcInjector"
    /\ UnloadTeardown

InitAck ==
    /\ Init
    /\ evaluate_on_completion
    /\ message_handler

NextAck ==
    \/ Start
    \/ StartLoad
    \/ Connect
    \/ StopAfterLoad
    \/ StopTrigger
    \/ StopTriggerReturn
    \/ ProcessMessageQueue
    \/ ProcessMessageQueueClear
    \/ TargetAnswers
    \/ DrainPass
    \/ DrainForward
    \/ SinkStep
    \/ DrainAck
    \/ DrainEnd
    \/ DrainClear
    \/ DrainError
    \/ UnloadTrigger
    \/ UnloadTriggerStep
    \/ UnloadTeardownInProcess
    \/ StopCheck
    \/ StopRecord
    \/ StopEnd

SpecAck == InitAck /\ [][NextAck]_vars

(* The drain thread with a sink that may raise.                            *)
NextRedeliver ==
    \/ Connect
    \/ Send
    \/ IpcInjectorLoadScripts
    \/ DrainPass
    \/ DrainTake
    \/ DrainTakeRaises
    \/ DrainEnd
    \/ DrainClear

SpecRedeliver == InitDrain /\ [][NextRedeliver]_vars

(* start() and stop() as the driver may call them, in any state of the     *)
(* evaluator.                                                              *)

(* A variant of start() that reports the backend's failure to load.        *)
StartResultOfLoad(running, load_success) == ~running /\ load_success

(* What start() returns: False on a running evaluator, True otherwise,     *)
(* whatever load_scripts returned (a failure is only logged).              *)
StartResult(running, load_success) == ~running

EvaluatorCall(op, returned, load) == [op |-> op, returned |-> returned, load |-> load]

(* start(): `if self.is_running: return False`; otherwise the session is   *)
(* started, TASK_START recorded and load_scripts called.                   *)
StartCalled ==
    /\ main_pc \in {"init", "loop"}
    /\ Len(app_calls.evaluator) < MaxCalls
    /\ \E load_success \in BOOLEAN :
          /\ app_calls' = [app_calls EXCEPT !.evaluator =
                Append(@, EvaluatorCall("start", StartResult(is_running, load_success),
                                        IF is_running THEN Absent
                                        ELSE IF load_success THEN "True" ELSE "False"))]
          /\ IF is_running
             THEN UNCHANGED <<is_running, storeVars, sink_open, main_pc>>
             ELSE /\ is_running' = TRUE
                  /\ SetStore(record_event(Store, TaskStart(NoMsg)))
                  /\ sink_open' = CASE evaluator_type = "IpcInjector" -> TRUE
                                    [] evaluator_type = "HookManager" -> load_success
                                    [] OTHER -> FALSE
                  /\ main_pc' = "loop"
    /\ UNCHANGED <<evaluator_type, evaluate_on_completion, message_handler,
                   session_ended, stop_context, pending, in_msg, handled, backendVars,
                   config_scripts, app_path, app_started>>

(* stop(): `if not self.is_running: return`; otherwise is_running is       *)
(* cleared and the unload begins.                                          *)
StopCalled ==
    /\ main_pc \in {"init", "loop", "done"}
    /\ Len(app_calls.evaluator) < MaxCalls
    /\ app_calls' = [app_calls EXCEPT !.evaluator =
          Append(@, EvaluatorCall("stop", "None", Absent))]
    /\ IF is_running
       THEN /\ is_running' = FALSE
            /\ main_pc' = "unload"
       ELSE UNCHANGED <<is_running, main_pc>>
    /\ UNCHANGED <<evaluator_type, evaluate_on_completion, message_handler, storeVars,
                   session_ended, sink_open, stop_context, pending, in_msg, handled,
                   backendVars, config_scripts, app_path, app_started>>

NextCalls ==
    \/ StartCalled
    \/ StopCalled
    \/ UnloadTrigger
    \/ UnloadTriggerStep
    \/ UnloadTeardown
    \/ StopCheck
    \/ StopRecord
    \/ StopEnd

SpecCalls == Init /\ [][NextCalls]_vars

(* The two queues of the bridge under concurrent producers: the target's   *)
(* sends against the drain thread, load_scripts against the periodic task. *)
NextRace ==
    \/ Connect
    \/ Send
    \/ DrainPass
    \/ DrainTake
    \/ DrainEnd
    \/ DrainClear
    \/ IpcInjectorLoadScripts
    \/ ProcessMessageQueue
    \/ ProcessMessageQueueClear

SpecRace == InitDrain /\ [][NextRace]_vars

-----------------------------------------------------------------------------
(* Reading the history.                                                    *)

RECURSIVE SelectBy(_, _)
SelectBy(seq, m) ==
    IF seq = << >> THEN << >>
    ELSE IF Head(seq).by = m THEN << Head(seq) >> \o SelectBy(Tail(seq), m)
         ELSE SelectBy(Tail(seq), m)

Count(seq, P(_)) == Cardinality({i \in 1..Len(seq) : P(seq[i])})

IsTaskEnd(ev) == ev.event_type = "TASK_END"
IsFinalCallback(cb) == cb.event_type \in {"task_completed", "task_error"}

Messages == 1..Len(handled)
Completed(m) == \A t \in Threads : in_msg[t] # MsgId(m)
Quiescent == \A t \in Threads : pending[t] = << >>
Returned(m, result) == message_handler /\ handled[m].result = result /\ Completed(m)

-----------------------------------------------------------------------------
(* C1: within one session the completion callbacks fire for a final        *)
(* outcome (task_completed or task_error) at most once in total.           *)
C1_CallbacksAtMostOnce == Count(callbacks_fired, IsFinalCallback) <= 1

(* C2: once stop() has returned, the event log holds exactly one TASK_END. *)
C2_ExactlyOneTaskEnd ==
    (main_pc = "done" /\ Quiescent) => Count(raw_events, IsTaskEnd) = 1

(* C3: a message passed to _on_message when the evaluator is already       *)
(* Finalized records no event and fires no callback.                       *)
C3_IgnoredOnceFinalized ==
    \A m \in Messages :
        handled[m].finalized =>
            /\ SelectBy(raw_events, MsgId(m)) = << >>
            /\ SelectBy(callbacks_fired, MsgId(m)) = << >>

(* C4: a handler result [key_step 1, success "done"] makes its message     *)
(* record KEY_STEP_COMPLETED(1) then TASK_END(success, "done"), nothing     *)
(* else, and fire task_completed exactly once.                             *)
KeyStepThenDone == ListResult(<< KeyStepUpd(1), Done >>)

C4_KeyStepThenSuccess ==
    \A m \in Messages :
        Returned(m, KeyStepThenDone) =>
            /\ SelectBy(raw_events, MsgId(m)) =
                   << KeyStepCompleted(1, Absent, MsgId(m)), TaskEnd("success", "done", MsgId(m)) >>
            /\ SelectBy(callbacks_fired, MsgId(m)) =
                   << CallbackEventData("task_completed", "done", MsgId(m)) >>

C4_Witness == \E m \in Messages : Returned(m, KeyStepThenDone)

(* C5: a handler that raises with text E makes its message record          *)
(* AGENT_ERROR_OCCURRED(message E) then TASK_END(failure), fire task_error *)
(* once and leave the session finalized; the call returns to its thread.   *)
C5_HandlerExceptionFinalizes ==
    \A m \in Messages :
        Returned(m, RaiseResult("boom")) =>
            /\ SelectBy(raw_events, MsgId(m)) =
                   << AgentError("Handler Exception", "boom", MsgId(m)),
                      TaskEnd("failure", "Handler execution error: boom", MsgId(m)) >>
            /\ SelectBy(callbacks_fired, MsgId(m)) =
                   << CallbackEventData("task_error", "Handler execution error: boom", MsgId(m)) >>
            /\ final_callback_triggered
            /\ handled[m].thread = "main" =>
                   main_pc \in {"unload_msg", "check", "record", "end", "done"}

C5_Witness == \E m \in Messages : Returned(m, RaiseResult("boom"))

(* No handler update and no handler exception has finalized the task.      *)
NoHandlerFinalization ==
    /\ ~final_callback_triggered
    /\ Quiescent
    /\ \A i \in 1..Len(raw_events) :
          IsTaskEnd(raw_events[i]) => raw_events[i].by = NoMsg

(* C6: after an external stop with no handler finalization the TASK_END    *)
(* event has status "stopped" and the reason configured for the stop, and  *)
(* no task_completed / task_error callback has fired.                      *)
C6_StoppedWithConfiguredReason ==
    (main_pc = "done" /\ stop_context.status = "stopped" /\ NoHandlerFinalization) =>
        /\ Count(raw_events, IsTaskEnd) = 1
        /\ \A i \in 1..Len(raw_events) :
              IsTaskEnd(raw_events[i]) =>
                  /\ raw_events[i].status = "stopped"
                  /\ raw_events[i].reason = stop_context.reason
        /\ Count(callbacks_fired, IsFinalCallback) = 0

(* C7: after a stop configured with (R, "timeout") and no handler          *)
(* finalization, stop() has recorded TASK_END(status "timeout", reason R). *)
C7_TimeoutPairRecorded ==
    (main_pc = "done" /\ stop_context.status = "timeout" /\ NoHandlerFinalization) =>
        \E i \in 1..Len(raw_events) :
            /\ IsTaskEnd(raw_events[i])
            /\ raw_events[i].by = NoMsg
            /\ raw_events[i].status = stop_context.status
            /\ raw_events[i].reason = stop_context.reason

(* C8: the recorded key steps hold every reported index exactly once, in   *)
(* the order of first report, whatever the number of duplicate reports.    *)
IsKeyStep(ev) == ev.event_type = "KEY_STEP_COMPLETED"

ValidKeyStep(u) ==
    u.is_dict /\ u.status = "key_step" /\ u.index_is_int /\ u.index > 0

ReportedBy(m) ==
    IF message_handler /\ handled[m].result.kind = "list"
    THEN {handled[m].result.updates[k].index :
             k \in {j \in 1..Len(handled[m].result.updates) :
                       ValidKeyStep(handled[m].result.updates[j])}}
    ELSE {}

RecordedSteps == {key_steps[i] : i \in 1..Len(key_steps)}

RECURSIVE FirstReports(_, _)
FirstReports(log, seen) ==
    IF log = << >> THEN << >>
    ELSE IF IsKeyStep(Head(log)) /\ Head(log).step_index \notin seen
         THEN << Head(log).step_index >>
                  \o FirstReports(Tail(log), seen \cup {Head(log).step_index})
         ELSE FirstReports(Tail(log), seen)

-----------------------------------------------------------------------------
(* C9: a bundle with dependencies [a, b] and primary c is injected as the  *)
(* dependency contents in order, then the primary content, joined by "\n". *)
BundleABC == << "c.js", << "a.js", "b.js" >> >>

C9_DependenciesThenPrimary ==
    scripts = << BundleABC >> =>
        /\ \A i \in 1..Len(injected) : injected[i].content = "a\nb\nc"
        /\ \A i \in 1..Len(msg_from_evaluator) :
              msg_from_evaluator[i].type = "inject" =>
                  msg_from_evaluator[i].content = "a\nb\nc"

(* C10: load_scripts with no registered bundle returns false and injects   *)
(* nothing: no Inject command, no attach, no hook call, nothing recorded   *)
(* as loaded.                                                              *)
C10_NoScriptsNoInjection ==
    (scripts = << >> /\ load_calls > 0) =>
        /\ load_result = LoadReturn(FALSE)
        /\ msg_from_evaluator = << >>
        /\ injected = << >>
        /\ attach_attempts = 0
        /\ hooks_called = << >>
        /\ inspector_on_start = << >>
        /\ inspector_on_completion = << >>
        /\ loaded_scripts = << >>

C10_Witness ==
    /\ scripts = << >>
    /\ load_calls > 0
    /\ load_result = LoadReturn(FALSE)
    /\ evaluator_type = "HookManager"
    /\ app_process = "alive"

-----------------------------------------------------------------------------
(* C11: on the bridge backend, load_scripts called with at least one       *)
(* registered bundle and an empty session set returns False, enqueues no   *)
(* Inject command and records no bundle as loaded.                         *)
BridgeLoadWithoutSession ==
    /\ last_load.called
    /\ last_load.backend = "IpcInjector"
    /\ last_load.registry # << >>
    /\ last_load.sessions = << >>

C11_NoSessionNoInjection ==
    BridgeLoadWithoutSession =>
        /\ last_load.result = LoadReturn(FALSE)
        /\ last_load.enqueued = << >>
        /\ last_load.loaded = << >>

C11_Witness ==
    /\ BridgeLoadWithoutSession
    /\ \E i \in 1..Len(last_load.registry) :
          \A j \in 1..Len(ReadOrder(last_load.registry[i])) :
             ReadOrder(last_load.registry[i])[j] \in last_load.files

-----------------------------------------------------------------------------
(* Can every file of the bundle be read from this disk?                    *)
ReadableAt(bundle, disk) ==
    /\ Primary(bundle) \in disk
    /\ \A j \in 1..Len(Dependencies(bundle)) : Dependencies(bundle)[j] \in disk

(* C12: load_scripts attempts every registered bundle independently (one   *)
(* that fails does not stop the others) and returns True if and only if    *)
(* at least one bundle was loaded by that call.                            *)
C12_TrueIffLoadedByCall ==
    (last_load.called /\ last_load.attempted) =>
        /\ Len(last_load.loaded) =
              Cardinality({i \in 1..Len(last_load.registry) :
                              ReadableAt(last_load.registry[i], last_load.files)})
        /\ (last_load.result = LoadReturn(TRUE)) <=> (last_load.loaded # << >>)

-----------------------------------------------------------------------------
(* unload_scripts.                                                         *)

(* The unload_scripts calls that have come back to their caller.           *)
UnloadReturned(k) == unload_log[k].trigger # "waiting"

(* Call k+1 started in the state call k had left.                          *)
UnloadedAgain(k) ==
    /\ k + 1 <= Len(unload_log)
    /\ UnloadReturned(k)
    /\ UnloadReturned(k + 1)
    /\ unload_log[k + 1].before = unload_log[k].after

(* C13: unload_scripts never raises on any of the three backends, and it   *)
(* is idempotent: a call made in the state the previous call left (with    *)
(* scripts loaded or not, sessions connected or not) returns normally and  *)
(* leaves that state as it is.                                             *)
C13_UnloadIdempotentNoRaise ==
    \A k \in 1..Len(unload_log) :
        /\ UnloadReturned(k) => unload_log[k].returned
        /\ UnloadedAgain(k) => unload_log[k + 1].after = unload_log[k].after

(* A first call released loaded scripts, a second one followed at once.    *)
C13_Witness ==
    /\ Len(unload_log) = 2
    /\ UnloadedAgain(1)
    /\ unload_log[1].before.loaded_scripts # << >>
    /\ unload_log[1].after.loaded_scripts = << >>
    /\ unload_log[2].returned

(* The state a full teardown leaves: no loaded script; on the bridge the   *)
(* drain thread told to stop and the server process terminated.            *)
TornDown(rec) ==
    /\ rec.after.loaded_scripts = << >>
    /\ rec.backend = "IpcInjector" =>
          /\ ~rec.after.message_handle_running
          /\ rec.after.server = "terminated"

(* C14: with evaluate_on_completion configured, unload_scripts invokes the *)
(* trigger before any teardown step and then tears down completely,        *)
(* whether the trigger was acknowledged, timed out or raised.              *)
C14_TriggerThenFullTeardown ==
    \A k \in 1..Len(unload_log) :
        (evaluate_on_completion /\ UnloadReturned(k)) =>
            /\ unload_log[k].steps # << >>
            /\ unload_log[k].steps[1] = "trigger"
            /\ TornDown(unload_log[k])

-----------------------------------------------------------------------------
(* The bridge server.                                                      *)

(* What the periodic task has relayed to the targets so far.               *)
Relayed == << SelectSeq(injected, LAMBDA e : e.via = "load"), evaluated >>

(* The server process is running unless an unload_scripts terminated it.   *)
ServerNeverCrashed ==
    \/ server = "alive"
    \/ \E k \in 1..Len(unload_log) : unload_log[k].after.server = "terminated"

(* C15: when a pass of the server's periodic task meets a broken pipe, no  *)
(* exception escapes the server process, the task is never scheduled       *)
(* again, so that no command enqueued from then on is relayed, and every   *)
(* later unload_scripts returns.                                           *)
C15_BrokenPipeStopsRelay ==
    /\ [](/\ "BrokenPipeError" \in queue_task.errors => queue_task.next = "stopped"
          /\ ServerNeverCrashed
          /\ \A k \in 1..Len(unload_log) :
                (unload_log[k].relay = "stopped" /\ UnloadReturned(k))
                    => unload_log[k].returned)
    /\ [][queue_task.next = "stopped"
             => (queue_task'.next = "stopped" /\ Relayed' = Relayed)]_vars

(* The task stopped on a broken pipe; an unload_scripts called afterwards  *)
(* enqueued Evaluate commands that are still in the queue, and returned    *)
(* after its trigger timed out.                                            *)
C15_Witness ==
    /\ "BrokenPipeError" \in queue_task.errors
    /\ \E k \in 1..Len(unload_log) :
          /\ unload_log[k].relay = "stopped"
          /\ unload_log[k].trigger = "timed_out"
          /\ unload_log[k].enqueued # << >>
          /\ unload_log[k].returned
          /\ \A i \in 1..Len(unload_log[k].enqueued) :
                \E j \in 1..Len(msg_from_evaluator) :
                    msg_from_evaluator[j] = unload_log[k].enqueued[i]
    /\ evaluated = << >>

-----------------------------------------------------------------------------
(* The bridge's trigger and drain thread.                                  *)

(* Call k of unload_scripts invoked the trigger and the trigger read the   *)
(* session set.                                                            *)
Triggered(k) ==
    /\ unload_log[k].backend = "IpcInjector"
    /\ unload_log[k].trigger \in {"waiting", "acknowledged", "timed_out"}

Drained == SelectSeq(taken, LAMBDA m : m.by = "drain")

AckForwarded ==
    \E i \in 1..Len(Drained) :
        Drained[i].forwarded /\ Drained[i].event_type = "evaluate_on_completion"

(* A start_success is never passed to the sink and sets app_connect.       *)
HandshakeNotForwarded ==
    \A i \in 1..Len(Drained) :
        Drained[i].event_type = "start_success" =>
            ~Drained[i].forwarded /\ app_connect

-----------------------------------------------------------------------------
(* The bridge's session set.                                               *)

SessionSet == { target_session_id[i] : i \in 1..Len(target_session_id) }

(* The connected clients whose connect handler could register them.        *)
RegisteredClients ==
    { sid \in clients :
        \E i \in 1..Len(connects) : connects[i].sid = sid /\ connects[i].bookkeeping }

(* The sessions of the commands a step appends to the command queue.       *)
NewlyAddressed ==
    { msg_from_evaluator'[i].sid :
        i \in (Len(msg_from_evaluator) + 1)..Len(msg_from_evaluator') }

(* C18: the session set holds exactly the sessions of the clients now      *)
(* connected (added on connect, removed on disconnect, all removed on      *)
(* unload), so no command is ever enqueued for a session whose client has  *)
(* disconnected.                                                           *)
C18_SessionSetIsConnectedClients ==
    /\ [](SessionSet = RegisteredClients)
    /\ [][NewlyAddressed \subseteq clients]_vars

(* What the connect handler emitted to a session.                          *)
ReplayedTo(sid) == SelectSeq(injected, LAMBDA e : e.sid = sid /\ e.via = "connect")

(* Call c of the connect handler replayed each bundle of the registry that *)
(* could be read, once, and nothing else.                                  *)
ReplayedOnce(c) ==
    LET readable == { i \in 1..Len(c.registry) : ReadableAt(c.registry[i], c.files) }
    IN /\ Len(ReplayedTo(c.sid)) = Cardinality(readable)
       /\ \A i \in readable :
             \E j \in 1..Len(ReplayedTo(c.sid)) :
                 ReplayedTo(c.sid)[j].content = ScriptContent(c.registry[i])

(* C19: the connect handler always accepts the connection, also when the   *)
(* session id cannot be registered or the registry cannot be read; when    *)
(* the bookkeeping succeeds the session id is in the session set after the *)
(* call and every bundle registered at that moment has been emitted once   *)
(* to the new session, a bundle that fails not stopping the others.        *)
C19_ConnectAlwaysAccepts ==
    /\ [](\A i \in 1..Len(connects) :
             /\ connects[i].accepted
             /\ connects[i].bookkeeping => ReplayedOnce(connects[i])
             /\ ~connects[i].bookkeeping => ReplayedTo(connects[i].sid) = << >>)
    /\ [][Len(connects') > Len(connects) =>
             LET c == connects'[Len(connects')]
             IN c.bookkeeping =>
                    /\ Len(target_session_id') = Len(target_session_id) + 1
                    /\ target_session_id'[Len(target_session_id')] = c.sid]_vars

(* A session connected to a registry whose first bundle cannot be read and *)
(* whose second can, and another one was accepted without bookkeeping.     *)
C19_Witness ==
    \E i, j \in 1..Len(connects) :
        /\ connects[i].bookkeeping
        /\ Len(connects[i].registry) = 2
        /\ ~ReadableAt(connects[i].registry[1], connects[i].files)
        /\ Len(ReplayedTo(connects[i].sid)) = 1
        /\ connects[i].sid \in SessionSet
        /\ ~connects[j].bookkeeping
        /\ connects[j].accepted

(* The messages the drain thread passed to the sink, in delivery order.    *)
Delivered == SelectSeq(Drained, LAMBDA m : m.forwarded)

-----------------------------------------------------------------------------
InQueue(n) == \E i \in 1..Len(msg_from_app) : msg_from_app[i].content.n = n

(* Message n was appended to msg_from_app and has left it without the      *)
(* drain thread having taken it.                                           *)
Lost(n) ==
    /\ n \in 1..sends
    /\ ~InQueue(n)
    /\ \A i \in 1..Len(taken) : taken[i].n # n

(* C21: reading a queue and emptying it are separate steps, and emptying   *)
(* drops whatever the queue holds.  A message the target sent after the    *)
(* drain thread's iteration ended and before the queue was replaced is     *)
(* dropped and never passed to the sink; the periodic task's emptying of   *)
(* msg_from_evaluator likewise drops the commands appended after its loop, *)
(* without emitting them.                                                  *)
C21_AppendedBetweenReadAndClearIsLost ==
    /\ [][(drain_pc = "clear" /\ drain_pc' = "sleep")
             => /\ msg_from_app' = << >>
                /\ taken' = taken
                /\ \A n \in 1..MaxSends :
                      (\E i \in (drain_pos + 1)..Len(msg_from_app) :
                          msg_from_app[i].content.n = n) => Lost(n)']_vars
    /\ [][\A n \in 1..MaxSends : Lost(n) => Lost(n)']_vars
    /\ [][(queue_task.next = "clearing" /\ queue_task'.next = "scheduled")
             => /\ msg_from_evaluator' = << >>
                /\ injected' = injected
                /\ evaluated' = evaluated
                /\ Len(queue_task'.lost) = Len(queue_task.lost)
                      + Len(msg_from_evaluator) - queue_task.emitted]_vars

(* The sink was registered and had been given message 1; message 2, sent   *)
(* after the iteration of a later pass, was dropped unread, and an Inject  *)
(* command was emptied away without having been emitted.                   *)
C21_Witness ==
    /\ Lost(2)
    /\ \E i \in 1..Len(taken) : taken[i].n = 1 /\ taken[i].forwarded
    /\ \E i \in 1..Len(queue_task.lost) : queue_task.lost[i].type = "inject"
    /\ msg_from_app = << >>
    /\ msg_from_evaluator = << >>
    /\ drain_pc = "sleep"
    /\ queue_task.next = "scheduled"

-----------------------------------------------------------------------------
(* C22: on the bridge backend, once stop() has ended the session the       *)
(* drain thread records no further event and fires no further callback:    *)
(* unload_scripts has stopped and joined it.                               *)
C22_NoSinkEffectAfterStop ==
    [][(evaluator_type = "IpcInjector" /\ main_pc = "done")
         => /\ raw_events' = raw_events
            /\ callbacks_fired' = callbacks_fired
            /\ final_callback_triggered' = final_callback_triggered]_vars

-----------------------------------------------------------------------------
(* C23: stop() on a running evaluator always ends the result collector's   *)
(* session and persists the metrics, also when an earlier step of stop()   *)
(* raised: whenever stop() has returned, the session is ended.             *)
C23_StopAlwaysEndsSession == main_pc = "done" => session_ended

-----------------------------------------------------------------------------
(* C24: Finalized is terminal.  Once stop() has finalized the evaluator no *)
(* operation makes it Running again or records another TASK_START: the log *)
(* holds at most one TASK_START, and is_running stays off after stop().    *)
C24_FinalizedIsTerminal ==
    /\ [](Len(TaskStarts) <= 1)
    /\ [][main_pc = "done" => ~is_running']_vars

-----------------------------------------------------------------------------
(* The complete step sequences of one stop_app call on a process handle.   *)
EscalationLogs ==
    { << "SIGTERM", "exited" >>,
      << "SIGTERM", "timeout", "terminate", "exited" >>,
      << "SIGTERM", "timeout", "terminate", "timeout", "kill" >> }

IsPrefix(a, b) == Len(a) <= Len(b) /\ a = SubSeq(b, 1, Len(a))

(* The steps of the call before the exception, if one was caught.          *)
BeforeRaise(log) ==
    IF log # << >> /\ log[Len(log)] = "raised" THEN SubSeq(log, 1, Len(log) - 1)
    ELSE log

(* C25: stop_app escalates in a fixed order and never raises: SIGTERM and  *)
(* a wait; terminate and a second wait only after the first wait timed     *)
(* out; kill only after both timed out; nothing is sent after a wait in    *)
(* which the process exited; an exception in a step ends the call with the *)
(* exception swallowed.                                                    *)
C25_StopAppEscalatesInOrder ==
    /\ \E full \in EscalationLogs : IsPrefix(BeforeRaise(app_calls.log), full)
    /\ (app_calls.log # BeforeRaise(app_calls.log)) => app_calls.pc = "returned"
    /\ (app_calls.pc = "returned" /\ app_calls.log # << >>)
          => \/ app_calls.log \in EscalationLogs
             \/ app_calls.log # BeforeRaise(app_calls.log)
    /\ app_calls.pc \in {"idle", "returned", "signal", "wait10", "terminate", "wait5",
                          "kill"}

(* A call that went through both timeouts to the kill, and returned.       *)
C25_Witness ==
    /\ app_calls.pc = "returned"
    /\ app_calls.log = << "SIGTERM", "timeout", "terminate", "timeout", "kill" >>
    /\ app_process = "gone"

(* C26: when the configured executable resolves neither as an existing     *)
(* path nor on the lookup path, start_app launches nothing, leaves the     *)
(* process handle empty, marks the app as started and returns True, and a  *)
(* stop_app after it does nothing.                                         *)
C26_UnresolvedPathStartsNothing ==
    (app_path = "missing" /\ app_calls.start # Absent)
        => /\ app_process = "none"
           /\ app_started
           /\ app_calls.start = "True"
           /\ app_calls.log = << >>
           /\ app_calls.pc \in {"idle", "returned"}

(* stop_app was called after such a start_app, on each backend.            *)
C26_Witness ==
    /\ app_path = "missing"
    /\ app_calls.start = "True"
    /\ app_calls.stops > 0
    /\ app_calls.pc = "returned"
    /\ evaluator_type = "IpcInjector"

-----------------------------------------------------------------------------
(* C27: on the library backend trigger_evaluate_on_completion calls every  *)
(* recorded completion hook, in order, also the hooks recorded after one   *)
(* that raised.                                                            *)
C27_EveryCompletionHookCalled ==
    [][(/\ evaluator_type = "StateInspector"
        /\ evaluate_on_completion
        /\ Len(unload_log') > Len(unload_log))
         => SubSeq(hooks_called', Len(hooks_called) + 1, Len(hooks_called'))
              = [i \in 1..Len(inspector_on_completion) |->
                   [hook |-> "inspector_on_completion",
                    module |-> inspector_on_completion[i]]]]_vars

-----------------------------------------------------------------------------
(* C28: a registered bundle is immutable: no load_scripts, trigger or      *)
(* unload_scripts of a backend changes the primary path or the dependency  *)
(* list of a bundle in the registry.                                       *)
C28_RegisteredBundleImmutable ==
    [][(load_calls' > load_calls \/ Len(unload_log') > Len(unload_log))
         => scripts' = scripts]_vars

-----------------------------------------------------------------------------
AllPathsExist(bundle) ==
    /\ Exists(Primary(bundle))
    /\ \A i \in 1..Len(Dependencies(bundle)) : Exists(Dependencies(bundle)[i])

(* C29: registering a bundle whose primary path or one of whose dependency *)
(* paths does not exist fails hard: the constructor raises at that entry   *)
(* and the bundle is not added to the registry; only bundles whose paths   *)
(* all exist are ever registered.                                          *)
C29_MissingPathFailsRegistration ==
    /\ [](\A i \in 1..Len(scripts) : AllPathsExist(scripts[i]))
    /\ [](main_pc = "raised"
            => config_scripts # << >> /\ ~AllPathsExist(Head(config_scripts)))
    /\ [][(/\ main_pc = "construct"
            /\ config_scripts # << >>
            /\ ~AllPathsExist(Head(config_scripts)))
             => (main_pc' = "raised" /\ scripts' = scripts)]_vars
    /\ [](main_pc = "init" => config_scripts = << >>)

(* The constructor registered one bundle and raised at the next, whose     *)
(* primary file is there and whose dependency is not.                      *)
C29_Witness ==
    /\ main_pc = "raised"
    /\ Len(scripts) = 1
    /\ Exists(Primary(Head(config_scripts)))
    /\ ~AllPathsExist(Head(config_scripts))

-----------------------------------------------------------------------------
(* The bundles of the last load's registry that could be read.             *)
LastLoadable ==
    SelectSeq(last_load.registry, LAMBDA bundle : ReadableAt(bundle, last_load.files))

Sendable(cmd) ==
    /\ cmd.type \in {"inject", "evaluate"}
    /\ cmd.sid # Absent
    /\ cmd.type = "inject" => cmd.content # Absent

EventsBy(m, types) ==
    SelectSeq(raw_events, LAMBDA ev : ev.by = MsgId(m) /\ ev.event_type \in types)

(* The events a list of updates is to leave, counted update by update.     *)
RECURSIVE EventCount(_)
EventCount(updates) ==
    IF updates = << >> THEN 0
    ELSE (CASE ~Head(updates).is_dict -> 0
            [] Head(updates).status = "success" -> 1
            [] Head(updates).status = "error" -> 2
            [] Head(updates).status = "app_event" -> 1
            [] ValidKeyStep(Head(updates)) -> 1
            [] OTHER -> 0) + EventCount(Tail(updates))

C32_KeyStepIndexDecidesRecording ==
    \A m \in 1..Len(handled) :
        (Completed(m) /\ handled[m].result.kind = "list") =>
            LET steps == SelectSeq(handled[m].result.updates, ValidKeyStep)
                events == EventsBy(m, {"KEY_STEP_COMPLETED"})
            IN  /\ Len(events) = Len(steps)
                /\ \A i \in 1..Len(steps) :
                       /\ events[i].step_index = steps[i].index
                       /\ events[i].step_name = steps[i].name
                /\ Len(SelectSeq(raw_events, LAMBDA ev : ev.by = MsgId(m)))
                       = EventCount(handled[m].result.updates)

(* A list with an index beyond total_key_steps and a name has been         *)
(* processed, and so has one that starts with an invalid index.            *)
C32_Witness ==
    /\ Len(handled) = 2
    /\ Completed(1) /\ Completed(2)
    /\ handled[1].result = ListResult(<< NamedKeyStepUpd(total_key_steps + 1, "extra"),
                                          KeyStepUpd(1) >>)
    /\ handled[2].result = ListResult(<< KeyStepUpd(0), KeyStepUpd(1) >>)
    /\ Len(EventsBy(1, {"KEY_STEP_COMPLETED"})) = 2
    /\ Len(EventsBy(2, {"KEY_STEP_COMPLETED"})) = 1

(* C33: an update of kind app_event or continue, one with no status or an  *)
(* unrecognised one, a list item that is no dict, and a handler result     *)
(* that is None or no list leave the completion state alone: they fire no  *)
(* callback and record no TASK_END and no AGENT_ERROR_OCCURRED; of them    *)
(* only app_event records an event, one APP_SPECIFIC_EVENT.                *)
Neutral(update) ==
    \/ ~update.is_dict
    \/ update.status \in {"app_event", "continue", Absent}
    \/ update.status \notin {"success", "error", "key_step"}

AllNeutral(result) ==
    \/ result.kind \in {"none", "other"}
    \/ /\ result.kind = "list"
       /\ \A i \in 1..Len(result.updates) : Neutral(result.updates[i])

C33_NeutralUpdatesKeepCompletionState ==
    /\ \A m \in 1..Len(handled) :
           (Completed(m) /\ AllNeutral(handled[m].result)) =>
               /\ \A i \in 1..Len(callbacks_fired) : callbacks_fired[i].by # MsgId(m)
               /\ EventsBy(m, {"TASK_END", "AGENT_ERROR_OCCURRED", "KEY_STEP_COMPLETED",
                               "TASK_START"}) = << >>
               /\ Len(EventsBy(m, {"APP_SPECIFIC_EVENT"}))
                      = Len(SelectSeq(handled[m].result.updates,
                                      LAMBDA u : u.is_dict /\ u.status = "app_event"))
    /\ (\A m \in 1..Len(handled) : AllNeutral(handled[m].result)) =>
           /\ ~final_callback_triggered
           /\ callbacks_fired = << >>

(* A list with an item that is no dict and an app_event, and a result that *)
(* is no list, have been processed.                                        *)
C33_Witness ==
    /\ Len(handled) = 2
    /\ Completed(1) /\ Completed(2)
    /\ handled[1].result = ListResult(<< NoDict, AppEventUpd("saved") >>)
    /\ handled[2].result = OtherResult
    /\ Len(EventsBy(1, {"APP_SPECIFIC_EVENT"})) = 1
    /\ ~final_callback_triggered

-----------------------------------------------------------------------------
(* C34: on the library backend load_scripts calls, during the load, the    *)
(* start hook of every module it imports that has one, and records every   *)
(* completion hook; the trigger then calls each recorded completion hook   *)
(* exactly once; after unload_scripts no hook is recorded, so a later      *)
(* trigger calls none.                                                     *)
NewCalls == SubSeq(hooks_called', Len(hooks_called) + 1, Len(hooks_called'))

C34_HooksCalledOncePerLoad ==
    [][evaluator_type = "StateInspector" =>
         /\ load_calls' > load_calls =>
               LET started == SubSeq(inspector_on_start', Len(inspector_on_start) + 1,
                                     Len(inspector_on_start'))
               IN  NewCalls = [i \in 1..Len(started) |->
                                 [hook |-> "inspector_on_start", module |-> started[i]]]
         /\ Len(unload_log') > Len(unload_log) =>
               /\ evaluate_on_completion =>
                     /\ Len(NewCalls) = Len(inspector_on_completion)
                     /\ \A i \in 1..Len(inspector_on_completion) :
                            NewCalls[i] = [hook |-> "inspector_on_completion",
                                           module |-> inspector_on_completion[i]]
               /\ ~evaluate_on_completion => NewCalls = << >>
               /\ inspector_on_completion' = << >>
               /\ inspector_on_start' = << >>
               /\ ~eval_handler']_vars

-----------------------------------------------------------------------------
(* C35: the bridge backend's readiness wait in start_app ends at the first *)
(* poll that finds the connected flag set or a session registered (a       *)
(* session without start_success counts as connected); otherwise it goes   *)
(* on up to the ceiling; however it ends, start_app returns True and has   *)
(* marked the app as started.                                              *)
Polls == app_calls.pc = "wait" /\ app_calls' # app_calls

C35_ReadinessWaitEnds ==
    /\ [](/\ app_calls.waited <= MaxWaitPolls
          /\ app_calls.start \in {Absent, "True"}
          /\ app_calls.start = "True" => app_started
          /\ app_calls.pc = "wait" => app_calls.start = Absent
          /\ app_calls.ended = "session" => app_connect)
    /\ [][Polls =>
            /\ (app_calls.waited < MaxWaitPolls /\ app_connect) =>
                   /\ app_calls'.pc = "idle"
                   /\ app_calls'.ended = "connected"
            /\ (app_calls.waited < MaxWaitPolls /\ ~app_connect /\ Reachable
                   /\ target_session_id # << >>) =>
                   /\ app_calls'.pc = "idle"
                   /\ app_calls'.ended = "session"
                   /\ app_connect'
            /\ (app_calls.waited < MaxWaitPolls /\ ~app_connect /\ Reachable
                   /\ target_session_id = << >>) =>
                   /\ app_calls'.pc = "wait"
                   /\ app_calls'.waited = app_calls.waited + 1
            /\ app_calls.waited = MaxWaitPolls =>
                   /\ app_calls'.pc = "idle"
                   /\ app_calls'.ended = "ceiling"
            /\ app_calls'.pc = "idle" =>
                   /\ app_calls'.start = "True"
                   /\ app_started']_vars

(* A client registered without sending start_success, and the wait ended   *)
(* on its session after one sleep.                                         *)
C35_Witness ==
    /\ app_calls.ended = "session"
    /\ app_calls.waited = 1
    /\ app_calls.start = "True"
    /\ app_started
    /\ taken = << >>

-----------------------------------------------------------------------------
(* C36: in a stop() with evaluate_on_completion, when the evaluation the   *)
(* unload triggers makes the handler report success or error, stop()       *)
(* records no 'stopped' TASK_END of its own.  On the bridge the sink has   *)
(* finished the acknowledgment message before the acknowledgment flag is   *)
(* set, so a trigger that returns on the flag leaves stop() a final flag   *)
(* that reflects that message.                                             *)
FinalResult(result) ==
    \/ result.kind = "raise"
    \/ /\ result.kind = "list"
       /\ \E i \in 1..Len(result.updates) :
             /\ result.updates[i].is_dict
             /\ result.updates[i].status \in {"success", "error"}

StoppedEnds ==
    SelectSeq(raw_events,
              LAMBDA ev : ev.event_type = "TASK_END" /\ ev.status = "stopped")

(* The acknowledgment message is the first one the drain forwarded.        *)
Acknowledged ==
    /\ evaluator_type = "IpcInjector"
    /\ unload_log # << >>
    /\ unload_log[Len(unload_log)].trigger = "acknowledged"

C36_EvaluationAtStopLeavesNoStoppedEnd ==
    /\ triggered_evaluate =>
          /\ handled # << >>
          /\ Completed(1)
          /\ FinalResult(handled[1].result) => final_callback_triggered
    /\ (Acknowledged /\ FinalResult(handled[1].result)) =>
          /\ main_pc # "record"
          /\ StoppedEnds = << >>
    /\ (evaluator_type # "IpcInjector" /\ main_pc \in {"check", "record", "end", "done"}
          /\ \E m \in 1..Len(handled) : FinalResult(handled[m].result)) =>
          /\ main_pc # "record"
          /\ StoppedEnds = << >>

(* A stop() on the bridge whose trigger returned on the acknowledgment of  *)
(* an answer the handler reported success for, and that has ended.         *)
C36_Witness ==
    /\ Acknowledged
    /\ main_pc = "done"
    /\ evaluated # << >>
    /\ handled[1].result = ListResult(<< KeyStepUpd(1), Done >>)
    /\ \E i \in 1..Len(raw_events) :
          raw_events[i].event_type = "TASK_END" /\ raw_events[i].status = "success"
    /\ StoppedEnds = << >>

-----------------------------------------------------------------------------
(* C37: each message appended to the target -> evaluator queue is passed   *)
(* to the sink at most once; no pass of the drain passes on a message that *)
(* an earlier pass has passed on, also when the sink raised part-way       *)
(* through a pass.                                                         *)
Deliveries(n) ==
    SelectSeq(taken, LAMBDA t : t.by = "drain" /\ t.forwarded /\ t.n = n)

C37_ForwardedAtMostOnce == \A n \in 1..sends : Len(Deliveries(n)) <= 1

-----------------------------------------------------------------------------
(* C38: on the bridge each registered bundle is injected into each session *)
(* at most once over the life of the backend; a session that got a bundle  *)
(* through the replay of its connect does not get it again from            *)
(* load_scripts.                                                           *)
C38_BundleInjectedOncePerSession ==
    \A i, j \in 1..Len(injected) :
        (i < j /\ injected[i].sid = injected[j].sid)
            => injected[i].content # injected[j].content

-----------------------------------------------------------------------------
(* C39: when the constructor of the evaluator raises a configuration       *)
(* error, no resource of the bridge is left running: its server process    *)
(* and its drain thread were not started, or have been stopped.            *)
C39_ConfigErrorLeavesNoBridgeRunning ==
    (main_pc = "raised" /\ evaluator_type = "IpcInjector") =>
        /\ server # "alive"
        /\ ~message_handle_running \/ drain_pc = "exited"

-----------------------------------------------------------------------------
(* C40: start() on a running evaluator returns False and changes nothing   *)
(* (no TASK_START, no load); stop() on an evaluator that is not running    *)
(* changes nothing (no unload, no TASK_END, no end of session); start()    *)
(* on an evaluator that is not running returns True and leaves it running, *)
(* also when load_scripts reported failure.                                *)
LastCall == app_calls'.evaluator[Len(app_calls'.evaluator)]

NothingElseChanges ==
    /\ UNCHANGED <<evalVars, backendVars, config_scripts, app_path, app_started>>
    /\ app_calls' = [app_calls EXCEPT !.evaluator = app_calls'.evaluator]

C40_StartAndStopOutOfTurn ==
    [][Len(app_calls'.evaluator) > Len(app_calls.evaluator) =>
         /\ (LastCall.op = "start" /\ is_running) =>
                /\ LastCall.returned = FALSE
                /\ NothingElseChanges
         /\ (LastCall.op = "stop" /\ ~is_running) => NothingElseChanges
         /\ (LastCall.op = "start" /\ ~is_running) =>
                /\ LastCall.returned = TRUE
                /\ is_running'
                /\ Len(TaskStarts') = Len(TaskStarts) + 1]_vars

(* stop() was called before any start(), then start() with a failing      *)
(* load_scripts, then start() again on the running evaluator.              *)
C40_Witness ==
    /\ Len(app_calls.evaluator) = 3
    /\ app_calls.evaluator[1] = EvaluatorCall("stop", "None", Absent)
    /\ app_calls.evaluator[2] = EvaluatorCall("start", TRUE, "False")
    /\ app_calls.evaluator[3] = EvaluatorCall("start", FALSE, Absent)
    /\ is_running
    /\ Len(TaskStarts) = 1
    /\ unload_log = << >>

====
